---- MODULE Spec2Model ----
(***************************************************************************)
(* The download coordinator of s3-getobject-accelerator (exports.download) *)
(* as a state machine.  One download handle, its sink(s), the GETs in      *)
(* flight, the process.nextTick queue and the listeners waiting for the    *)
(* sink's 'drain' and 'finish' events.                                     *)
(*                                                                         *)
(* Scheduling is Node's: a callback runs to completion; the callbacks      *)
(* queued with process.nextTick run, in order, before any I/O event        *)
(* (a GET completing, 'drain', 'finish') and before any timer of the       *)
(* caller (readStream, file, abort).                                       *)
(***************************************************************************)
EXTENDS Integers, Sequences, FiniteSets, TLC

\* ---- bounds ------------------------------------------------------------
MaxSize ==
  9
MaxConcurrency ==
  3
MaxPartSize ==
  2
MaxUploadPartSize ==
  2
MaxCalls ==
  2
MaxAborts ==
  2
\* the largest object and concurrency of a handle that is started repeatedly
CallsMaxSize ==
  4
CallsMaxConcurrency ==
  2
\* the largest object of the runs checked for termination
LiveMaxSize ==
  5
\* the meta() calls of a caller, and the largest object they are made on
MaxMetaCalls ==
  2
MetaMaxSize ==
  5
\* the most chunks the body of a response arrives in
MaxChunks ==
  2
\* the largest object of the runs that include the empty object
EmptyMaxSize ==
  3
\* download() is called with a concurrency up to this, and an object of up
\* to this many half megabytes
CreateMaxConcurrency ==
  2
CreateMaxHalves ==
  5

VARIABLES
  options,               \* {partSizeInBytes (0 = null), concurrency, waitForWrite}
  objectSize,            \* size of the S3 object, in bytes
  uploadPartSize,        \* size of the parts the object was uploaded in
  callsAllowed,          \* how many readStream()/file() calls the caller makes
  started,
  stream,                \* index into sinks, 0 = null
  partsToDownload,
  bytesToDownload,
  nextPartNo,
  lastWrittenPartNo,
  partsWaitingForWrite,  \* partNo -> chunk
  partsDownloading,      \* partNo -> id of the GET (its AbortController)
  aborted,
  sinks,                 \* the streams created by readStream()/file()
  inflight,              \* the GETs issued and not yet called back
  getCount,              \* number of GETs issued so far
  probeCount,            \* number of probe GETs issued so far
  tickQ,                 \* callbacks queued with process.nextTick
  drainWaiters,          \* stream.once('drain', cb)
  events,                \* the events emitted so far, in order
  calls,                 \* readStream()/file() calls made so far
  abortCalls,            \* abort() calls made so far
  abortTransitions,      \* how often the body of abortDownloads ran
  faulted,               \* a GET failed or abort() was called
  afterAbort,            \* what happened while aborted was true
  probeError,            \* the error the probe GET failed with, "" = none
  handle,                \* "none", "created" or "rejected" (download threw)
  args,                  \* the options download() is called with
  metaAllowed,           \* how many meta() calls the caller makes
  metaCalls,             \* meta() calls made so far
  metaCache,             \* the memoized probe: "none", "pending", "resolved"
  metaProbe,             \* <<>> or <<[req, err]>>: the probe GET and its result
  metaWaiters,           \* who waits for the probe: "meta" callbacks, "start"
  metaResults,           \* what the meta() callbacks were called with
  rr,                    \* one call of retryrequest
  tr,                    \* one request under its timeout profile
  uncaught,              \* the exception a callback threw, "" = none
  probeHeader,           \* the Content-Range S3 sends with the probe response
  cache                  \* imdsRegionCache, imdsCredentialsCache, dnsCache

vars ==
  <<options, objectSize, uploadPartSize, callsAllowed, started, stream, partsToDownload,
    bytesToDownload, nextPartNo, lastWrittenPartNo, partsWaitingForWrite,
    partsDownloading, aborted, sinks, inflight, getCount, probeCount, tickQ,
    drainWaiters, events, calls, abortCalls, abortTransitions, faulted,
    afterAbort, probeError, handle, args, metaAllowed, metaCalls, metaCache,
    metaProbe, metaWaiters, metaResults, rr, tr, uncaught, probeHeader, cache>>

\* ---- helpers -----------------------------------------------------------
Min(a, b) ==
  IF a <= b THEN a ELSE b

CeilDiv(a, b) ==
  (a + b - 1) \div b

Range(f) ==
  {f[x] : x \in DOMAIN f}

Without(f, k) ==
  [x \in (DOMAIN f) \ {k} |-> f[x]]

\* a callback, as data: k names the closure, partNo and parts its free variables
Cb(k, partNo, parts) ==
  [k |-> k, partNo |-> partNo, parts |-> parts]

\* the state of the handle as one record, so that a handler's statements
\* compose in program order
State ==
  [started |-> started, stream |-> stream,
   partsToDownload |-> partsToDownload, bytesToDownload |-> bytesToDownload,
   nextPartNo |-> nextPartNo, lastWrittenPartNo |-> lastWrittenPartNo,
   partsWaitingForWrite |-> partsWaitingForWrite,
   partsDownloading |-> partsDownloading, aborted |-> aborted,
   sinks |-> sinks, inflight |-> inflight, getCount |-> getCount,
   probeCount |-> probeCount, tickQ |-> tickQ, drainWaiters |-> drainWaiters,
   events |-> events, abortTransitions |-> abortTransitions,
   faulted |-> faulted, afterAbort |-> afterAbort, probeError |-> probeError,
   metaCalls |-> metaCalls, metaCache |-> metaCache, metaProbe |-> metaProbe,
   metaWaiters |-> metaWaiters, metaResults |-> metaResults,
   uncaught |-> uncaught]

\* the state a handler leaves behind becomes the next state; an exception
\* nobody catches ends the process
Commit(s) ==
  \E c \in {s} :
    /\ uncaught = ""
    /\ started' = c.started
    /\ stream' = c.stream
    /\ partsToDownload' = c.partsToDownload
    /\ bytesToDownload' = c.bytesToDownload
    /\ nextPartNo' = c.nextPartNo
    /\ lastWrittenPartNo' = c.lastWrittenPartNo
    /\ partsWaitingForWrite' = c.partsWaitingForWrite
    /\ partsDownloading' = c.partsDownloading
    /\ aborted' = c.aborted
    /\ sinks' = c.sinks
    /\ inflight' = c.inflight
    /\ getCount' = c.getCount
    /\ probeCount' = c.probeCount
    /\ tickQ' = c.tickQ
    /\ drainWaiters' = c.drainWaiters
    /\ events' = c.events
    /\ abortTransitions' = c.abortTransitions
    /\ faulted' = c.faulted
    /\ afterAbort' = c.afterAbort
    /\ probeError' = c.probeError
    /\ metaCalls' = c.metaCalls
    /\ metaCache' = c.metaCache
    /\ metaProbe' = c.metaProbe
    /\ metaWaiters' = c.metaWaiters
    /\ metaResults' = c.metaResults
    /\ uncaught' = c.uncaught
    /\ UNCHANGED <<options, objectSize, uploadPartSize, callsAllowed, handle, args,
                   metaAllowed, rr, tr, probeHeader, cache>>

\* ---- the S3 object, as the server sees it ------------------------------
\* the bytes of the object in [startByte, endByte], clipped to the object
RangeBody(partNo, startByte, endByte) ==
  [partNo |-> partNo, off |-> startByte,
   len |-> Min(endByte, objectSize - 1) - startByte + 1]

\* the object was uploaded in parts of uploadPartSize bytes
UploadParts ==
  CeilDiv(objectSize, uploadPartSize)

PartBody(partNo) ==
  RangeBody(partNo, (partNo - 1) * uploadPartSize, partNo * uploadPartSize - 1)

\* the body S3 returns for a GET
Body(req) ==
  IF req.range THEN RangeBody(req.partNo, req.startByte, req.endByte)
  ELSE PartBody(req.partNo)

\* the Content-Range header of a 206 response
ContentRange(body) ==
  <<"bytes", body.off, body.off + body.len - 1, objectSize>>

\* what parseInt makes of a text that does not start with a number
NaN ==
  -2

\* a comparison with NaN is false
LessEq(a, b) ==
  a /= NaN /\ b /= NaN /\ a <= b

\* Math.ceil(a/b)
Ceil(a, b) ==
  IF a = NaN THEN NaN ELSE CeilDiv(a, b)

\* data.ContentRange of a response without the header
NoContentRange ==
  <<"undefined">>

\* the Content-Range headers S3 may send with the probe response: the right
\* one, none, one in another unit, one without numbers ('bytes */*'), one of
\* another range than the one asked for
Headers ==
  {"right", "missing", "noBytes", "notNumbers", "shifted"}

ProbeContentRange(body) ==
  CASE probeHeader = "right" -> ContentRange(body)
    [] probeHeader = "missing" -> NoContentRange
    [] probeHeader = "noBytes" ->
         <<"items", body.off, body.off + body.len - 1, objectSize>>
    [] probeHeader = "notNumbers" -> <<"bytes", NaN, NaN, NaN>>
    [] probeHeader = "shifted" ->
         <<"bytes", body.off + 1, body.off + body.len, objectSize>>

\* ---- errors and responses ----------------------------------------------
\* an Error: its message (a text and the status code the text quotes, 0 = none)
\* and its properties code and statusCode ("" and 0 = undefined)
Err(text, quoted, code, statusCode) ==
  [message |-> <<text, quoted>>, code |-> code, statusCode |-> statusCode]

\* null, where an error is expected
NoError ==
  Err("", 0, "", 0)

\* a response: body is "bytes", "empty", "Error" (an S3 <Error> document with
\* Code and Message), "xml" (other XML), "malformed" or "text"
Res(statusCode, contentType, body, code) ==
  [statusCode |-> statusCode, contentType |-> contentType, body |-> body,
   code |-> code]

NoRes ==
  Res(0, "", "empty", "")

\* how an error is told apart in the sink: by its code, else by its message
ErrName(e) ==
  IF e.code /= "" THEN e.code ELSE e.message[1]

\* what S3 answers to a GET: the part or range asked for; for an empty object
\* 416 InvalidRange to a Range, 200 or 206 with an empty body to a part
\* number; or 403 AccessDenied
Responses(req) ==
  {Res(403, "application/xml", "Error", "AccessDenied")} \cup
  (IF objectSize > 0 THEN {Res(206, "binary/octet-stream", "bytes", "")}
   ELSE IF req.range THEN {Res(416, "application/xml", "Error", "InvalidRange")}
   ELSE {Res(200, "binary/octet-stream", "empty", ""),
         Res(206, "text/plain", "empty", "")})

\* ---- index.js ----------------------------------------------------------
\* the callback getObject hands to retryrequest: the error it calls back
\* with, NoError when it calls back with data
getObjectCallback(err, res) ==
  IF err /= NoError THEN err
  ELSE IF res.statusCode = 206 THEN NoError
  ELSE IF res.contentType = "application/xml"
       THEN IF res.body = "malformed" THEN Err("xml", 0, "", 0)
            ELSE IF res.body = "Error"
                 THEN Err(res.code, 0, res.code, res.statusCode)
                 ELSE Err("unexpected S3 XML response", res.statusCode, "", 0)
       ELSE Err("unexpected S3 response", res.statusCode, "", 0)

\* length -1: the function returns undefined; throws: startsWith is called
\* on undefined, a TypeError
parseContentRange(contentRange) ==
  IF contentRange = NoContentRange
  THEN [length |-> -1, startByte |-> -1, endByte |-> -1, throws |-> TRUE]
  ELSE IF contentRange[1] = "bytes"
       THEN [length |-> contentRange[4], startByte |-> contentRange[2],
             endByte |-> contentRange[3], throws |-> FALSE]
       ELSE [length |-> -1, startByte |-> -1, endByte |-> -1, throws |-> FALSE]

\* an event carries a number: the partNo of a part:* event, the lengthInBytes
\* of object:downloading
emit(s, name, partNo) ==
  LET e == [name |-> name, partNo |-> partNo]
  IN [s EXCEPT !.events = Append(@, e),
               !.afterAbort = IF s.aborted THEN Append(@, e) ELSE @]

\* part:writing, emitted immediately before the bytes flow to the sink
partWriting(s, partNo) ==
  emit(s, "part:writing", partNo)

\* object:downloading, emitted once the probe has told the size of the object
objectDownloading(s, lengthInBytes) ==
  emit(s, "object:downloading", lengthInBytes)

nextTick(s, cb) ==
  [s EXCEPT !.tickQ = Append(@, cb)]

\* getObject issues the GET and returns its AbortController, here the id
getObject(s, partNo, probe, range, startByte, endByte) ==
  LET id == s.getCount + 1
      req == [id |-> id, partNo |-> partNo, probe |-> probe,
              cancelled |-> FALSE, range |-> range,
              startByte |-> startByte, endByte |-> endByte]
  IN [s EXCEPT !.getCount = id,
               !.probeCount = IF probe THEN @ + 1 ELSE @,
               !.inflight = @ \cup {req},
               !.afterAbort = IF s.aborted
                              THEN Append(@, [name |-> "GET", partNo |-> partNo])
                              ELSE @]

stop(s) ==
  s

\* stream.write(chunk): the chunk is handed to the sink; the sink answers
\* TRUE (ready) or FALSE (wait for 'drain'); a sink that is destroyed or
\* ended answers FALSE
streamWrite(s, chunk) ==
  LET s0 == partWriting(s, chunk.partNo)
  IN [s0 EXCEPT !.sinks[s.stream].written = Append(@, chunk),
                !.afterAbort = IF s.aborted
                               THEN Append(@, [name |-> "write", partNo |-> chunk.partNo])
                               ELSE @]

SinkOpen(snk) ==
  snk.state = "open" /\ ~snk.destroyed

\* write calling back on the next tick whatever the sink answers
writeIgnoringBackpressure(s, chunk, cb, ready) ==
  LET s1 == streamWrite(s, chunk)
  IN IF ~(ready /\ SinkOpen(s.sinks[s.stream]))
     THEN nextTick([s1 EXCEPT !.sinks[s.stream].needDrain = TRUE], cb)
     ELSE nextTick(s1, cb)

\* a sink that answers FALSE is in need of 'drain' (writableNeedDrain)
write(s, chunk, cb, ready) ==
  LET s1 == streamWrite(s, chunk)
  IN IF ~(ready /\ SinkOpen(s.sinks[s.stream]))
     THEN [s1 EXCEPT !.drainWaiters = Append(@, [stream |-> s.stream, cb |-> cb]),
                     !.sinks[s.stream].needDrain = TRUE]
     ELSE nextTick(s1, cb)

\* stream.end(cb) and stream.end(chunk, cb): cb runs on 'finish', or on the
\* next tick (with an error) when the stream cannot finish any more
streamEnd(s, cb) ==
  LET s1 == [s EXCEPT !.sinks[s.stream].ends = @ + 1]
  IN IF SinkOpen(s.sinks[s.stream])
     THEN [s1 EXCEPT !.sinks[s.stream].state = "ending",
                     !.sinks[s.stream].onFinish = Append(@, cb)]
     ELSE nextTick(s1, cb)

\* stream.destroy(err): a stream is destroyed once, later calls are ignored
streamDestroy(s, err) ==
  IF s.sinks[s.stream].destroyed
  THEN s
  ELSE [s EXCEPT !.sinks[s.stream].destroyed = TRUE,
                 !.sinks[s.stream].error = err]

\* req.abort() of every request in partsDownloading
abortRequests(s) ==
  [s EXCEPT !.inflight =
     {IF r.id \in Range(s.partsDownloading) THEN [r EXCEPT !.cancelled = TRUE] ELSE r
        : r \in s.inflight}]

\* abortDownloads without the test of aborted
abortDownloadsUnguarded(s, err) ==
  LET s1 == [s EXCEPT !.aborted = TRUE, !.abortTransitions = @ + 1]
      s2 == abortRequests(s1)
      s3 == streamDestroy(s2, err)
  IN stop(s3)

abortDownloads(s, err) ==
  IF s.aborted = FALSE
  THEN LET s1 == [s EXCEPT !.aborted = TRUE, !.abortTransitions = @ + 1]
           s2 == abortRequests(s1)
           s3 == streamDestroy(s2, err)
       IN stop(s3)
  ELSE s

\* writePart without the test of lastWrittenPartNo
writePartUnordered(s, partNo, chunk, ready) ==
  write(s, chunk, Cb("written", partNo, 0), ready)

\* writePart writing any part that is ahead of the last one written
writePartAhead(s, partNo, chunk, ready) ==
  IF s.lastWrittenPartNo <= partNo - 1
  THEN write(s, chunk, Cb("written", partNo, 0), ready)
  ELSE [s EXCEPT !.partsWaitingForWrite = (partNo :> chunk) @@ @]

writePart(s, partNo, chunk, ready) ==
  IF s.lastWrittenPartNo = partNo - 1
  THEN write(s, chunk, Cb("written", partNo, 0), ready)
  ELSE [s EXCEPT !.partsWaitingForWrite = (partNo :> chunk) @@ @]

drainWriteQueue(s, ready) ==
  LET nextPartNoToWrite == s.lastWrittenPartNo + 1
  IN IF nextPartNoToWrite \in DOMAIN s.partsWaitingForWrite
     THEN writePart([s EXCEPT !.partsWaitingForWrite = Without(@, nextPartNoToWrite)],
                    nextPartNoToWrite,
                    s.partsWaitingForWrite[nextPartNoToWrite], ready)
     ELSE s

\* downloadPart with the range one byte too long
downloadPartOverlapping(s, partNo) ==
  LET partSizeInBytes == options.partSizeInBytes
      startByte == (partNo - 1) * partSizeInBytes
      endByte == Min(startByte + partSizeInBytes, s.bytesToDownload - 1)
      s1 == IF partSizeInBytes = 0
            THEN getObject(s, partNo, FALSE, FALSE, 0, 0)
            ELSE getObject(s, partNo, FALSE, TRUE, startByte, endByte)
  IN [s1 EXCEPT !.partsDownloading = (partNo :> s1.getCount) @@ @]

\* downloadPart asking for a whole part size whatever is left of the object
downloadPartUnclipped(s, partNo) ==
  LET partSizeInBytes == options.partSizeInBytes
      startByte == (partNo - 1) * partSizeInBytes
      endByte == startByte + partSizeInBytes - 1
      s1 == IF partSizeInBytes = 0
            THEN getObject(s, partNo, FALSE, FALSE, 0, 0)
            ELSE getObject(s, partNo, FALSE, TRUE, startByte, endByte)
  IN [s1 EXCEPT !.partsDownloading = (partNo :> s1.getCount) @@ @]

downloadPart(s, partNo) ==
  LET partSizeInBytes == options.partSizeInBytes
      startByte == (partNo - 1) * partSizeInBytes
      endByte == Min(startByte + partSizeInBytes - 1, s.bytesToDownload - 1)
      s1 == IF partSizeInBytes = 0
            THEN getObject(s, partNo, FALSE, FALSE, 0, 0)
            ELSE getObject(s, partNo, FALSE, TRUE, startByte, endByte)
  IN [s1 EXCEPT !.partsDownloading = (partNo :> s1.getCount) @@ @]

\* downloadNextPart going one part beyond the last
downloadNextPartBeyond(s) ==
  IF s.nextPartNo <= s.partsToDownload + 1
  THEN LET partNo == s.nextPartNo
           s1 == [s EXCEPT !.nextPartNo = @ + 1]
           s2 == emit(s1, "part:downloading", partNo)
       IN downloadPart(s2, partNo)
  ELSE s

downloadNextPart(s) ==
  IF LessEq(s.nextPartNo, s.partsToDownload)
  THEN LET partNo == s.nextPartNo
           s1 == [s EXCEPT !.nextPartNo = @ + 1]
           s2 == emit(s1, "part:downloading", partNo)
       IN downloadPart(s2, partNo)
  ELSE s

RECURSIVE startLoop(_, _)
startLoop(s, i) ==
  IF i < options.concurrency THEN startLoop(downloadNextPart(s), i + 1) ELSE s

\* startDownloadingParts with one worker too many
startDownloadingPartsOneMore(s) ==
  startLoop(s, -1)

startDownloadingParts(s) ==
  startLoop(s, 0)

\* partDone starting two downloads for one part written
partDoneTwoNext(s, partNo) ==
  LET s1 == emit(s, "part:done", partNo)
  IN IF options.waitForWrite
     THEN nextTick(nextTick(s1, Cb("downloadNextPart", 0, 0)),
                   Cb("downloadNextPart", 0, 0))
     ELSE s1

\* the callback downloadNextPart hands to writePart
partDone(s, partNo) ==
  LET s1 == emit(s, "part:done", partNo)
  IN IF options.waitForWrite
     THEN nextTick(s1, Cb("downloadNextPart", 0, 0))
     ELSE s1

\* written calling cb() and also handing it to stream.end
writtenDoneTwice(s, partNo) ==
  LET s1 == [s EXCEPT !.lastWrittenPartNo = partNo]
  IN IF s1.lastWrittenPartNo = s1.partsToDownload
     THEN stop(streamEnd(partDone(s1, partNo), Cb("partDone", partNo, 0)))
     ELSE partDone(nextTick(s1, Cb("drainWriteQueue", 0, 0)), partNo)

\* written without the walk of the write queue
writtenNoDrain(s, partNo) ==
  LET s1 == [s EXCEPT !.lastWrittenPartNo = partNo]
  IN IF s1.lastWrittenPartNo = s1.partsToDownload
     THEN stop(streamEnd(s1, Cb("partDone", partNo, 0)))
     ELSE partDone(s1, partNo)

\* the callback writePart hands to write
written(s, partNo) ==
  LET s1 == [s EXCEPT !.lastWrittenPartNo = partNo]
  IN IF s1.lastWrittenPartNo = s1.partsToDownload
     THEN stop(streamEnd(s1, Cb("partDone", partNo, 0)))
     ELSE partDone(nextTick(s1, Cb("drainWriteQueue", 0, 0)), partNo)

\* partCallback emitting part:downloaded after the part is handed on
partCallbackWritesFirst(s, req, err, ready) ==
  LET partNo == req.partNo
      s0 == [s EXCEPT !.inflight = @ \ {req},
                      !.partsDownloading = Without(@, partNo),
                      !.faulted = @ \/ (err /= "")]
  IN IF err /= ""
     THEN abortDownloads(s0, err)
     ELSE LET s1 == IF ~options.waitForWrite
                    THEN nextTick(s0, Cb("downloadNextPart", 0, 0))
                    ELSE s0
          IN emit(writePart(s1, partNo, Body(req), ready), "part:downloaded", partNo)

\* partCallback dispatching the next part whatever waitForWrite says
partCallbackAlwaysNext(s, req, err, ready) ==
  LET partNo == req.partNo
      s0 == [s EXCEPT !.inflight = @ \ {req},
                      !.partsDownloading = Without(@, partNo),
                      !.faulted = @ \/ (err /= "")]
  IN IF err /= ""
     THEN abortDownloads(s0, err)
     ELSE LET s1 == emit(s0, "part:downloaded", partNo)
              s2 == nextTick(s1, Cb("downloadNextPart", 0, 0))
          IN writePart(s2, partNo, Body(req), ready)

\* partCallback leaving the part in partsDownloading
partCallbackKeepsDownloading(s, req, err, ready) ==
  LET partNo == req.partNo
      s0 == [s EXCEPT !.inflight = @ \ {req},
                      !.faulted = @ \/ (err /= "")]
  IN IF err /= ""
     THEN abortDownloads(s0, err)
     ELSE LET s1 == emit(s0, "part:downloaded", partNo)
              s2 == IF ~options.waitForWrite
                    THEN nextTick(s1, Cb("downloadNextPart", 0, 0))
                    ELSE s1
          IN writePart(s2, partNo, Body(req), ready)

\* the callback of downloadPart in downloadNextPart, err = "" on success
partCallback(s, req, err, ready) ==
  LET partNo == req.partNo
      s0 == [s EXCEPT !.inflight = @ \ {req},
                      !.partsDownloading = Without(@, partNo),
                      !.faulted = @ \/ (err /= "")]
  IN IF err /= ""
     THEN abortDownloads(s0, err)
     ELSE LET s1 == emit(s0, "part:downloaded", partNo)
              s2 == IF ~options.waitForWrite
                    THEN nextTick(s1, Cb("downloadNextPart", 0, 0))
                    ELSE s1
          IN writePart(s2, partNo, Body(req), ready)

\* the write callback of the probe when more parts follow
probeDone(s, parts) ==
  LET s1 == emit(s, "part:done", 1)
      s2 == [s1 EXCEPT !.lastWrittenPartNo = 1, !.nextPartNo = 2,
                       !.partsToDownload = parts]
  IN startDownloadingParts(s2)

\* the end callback of the probe of a single-part object
probeEnd(s) ==
  stop(emit(s, "part:done", 1))

\* start dispatching part 2 along with the probe
startWithWorker(s) ==
  LET partSizeInBytes == options.partSizeInBytes
      s1 == emit(s, "part:downloading", 1)
      s2 == IF partSizeInBytes = 0
            THEN getObject(s1, 1, TRUE, FALSE, 0, 0)
            ELSE getObject(s1, 1, TRUE, TRUE, 0, partSizeInBytes - 1)
  IN downloadNextPart([s2 EXCEPT !.nextPartNo = 2, !.partsToDownload = 2])

start(s) ==
  LET partSizeInBytes == options.partSizeInBytes
      s1 == emit(s, "part:downloading", 1)
  IN IF partSizeInBytes = 0
     THEN getObject(s1, 1, TRUE, FALSE, 0, 0)
     ELSE getObject(s1, 1, TRUE, TRUE, 0, partSizeInBytes - 1)

\* probeCallback starting the workers although the probe failed
probeCallbackGoesOn(s, req, err, ready) ==
  LET s0 == [s EXCEPT !.inflight = @ \ {req}, !.faulted = @ \/ (err /= ""),
                      !.probeError = err]
  IN IF err /= ""
     THEN probeDone(streamDestroy(s0, err), UploadParts)
     ELSE write(emit(s0, "part:downloaded", 1), Body(req),
                Cb("probeDone", 1, UploadParts), ready)

\* probeCallback announcing the object before it looks at the error
probeCallbackAnnouncesFirst(s, req, err, ready) ==
  LET partSizeInBytes == options.partSizeInBytes
      body == Body(req)
      s00 == [s EXCEPT !.inflight = @ \ {req}, !.faulted = @ \/ (err /= ""),
                       !.probeError = err]
      s0 == objectDownloading(s00, parseContentRange(ContentRange(body)).length)
  IN IF err /= ""
     THEN stop(streamDestroy(s0, err))
     ELSE IF partSizeInBytes = 0
          THEN LET length == parseContentRange(ContentRange(body)).length
                   s1 == emit(objectDownloading(s0, length), "part:downloaded", 1)
               IN IF UploadParts > 1
                  THEN write(s1, body, Cb("probeDone", 1, UploadParts), ready)
                  ELSE streamEnd(streamWrite(s1, body), Cb("probeEnd", 1, 0))
          ELSE LET contentRange == parseContentRange(ContentRange(body))
               IN IF contentRange.length = -1
                  THEN stop(streamDestroy(s0, "unexpected S3 content range"))
                  ELSE LET s1 == emit(objectDownloading(s0, contentRange.length),
                                      "part:downloaded", 1)
                           s2 == [s1 EXCEPT !.bytesToDownload = contentRange.length]
                       IN IF s2.bytesToDownload <= partSizeInBytes
                          THEN streamEnd(streamWrite(s2, body), Cb("probeEnd", 1, 0))
                          ELSE write(s2, body,
                                     Cb("probeDone", 1,
                                        CeilDiv(s2.bytesToDownload, partSizeInBytes)),
                                     ready)

\* probeCallback taking an object of exactly one part size for a larger one
probeCallbackStrictlySmaller(s, req, err, ready) ==
  LET partSizeInBytes == options.partSizeInBytes
      body == Body(req)
      s0 == [s EXCEPT !.inflight = @ \ {req}, !.faulted = @ \/ (err /= ""),
                      !.probeError = err]
  IN IF err /= ""
     THEN stop(streamDestroy(s0, err))
     ELSE IF partSizeInBytes = 0
          THEN LET length == parseContentRange(ContentRange(body)).length
                   s1 == emit(objectDownloading(s0, length), "part:downloaded", 1)
               IN IF UploadParts > 1
                  THEN write(s1, body, Cb("probeDone", 1, UploadParts), ready)
                  ELSE streamEnd(streamWrite(s1, body), Cb("probeEnd", 1, 0))
          ELSE LET contentRange == parseContentRange(ContentRange(body))
               IN IF contentRange.length = -1
                  THEN stop(streamDestroy(s0, "unexpected S3 content range"))
                  ELSE LET s1 == emit(objectDownloading(s0, contentRange.length),
                                      "part:downloaded", 1)
                           s2 == [s1 EXCEPT !.bytesToDownload = contentRange.length]
                       IN IF s2.bytesToDownload < partSizeInBytes
                          THEN streamEnd(streamWrite(s2, body), Cb("probeEnd", 1, 0))
                          ELSE write(s2, body,
                                     Cb("probeDone", 1,
                                        CeilDiv(s2.bytesToDownload, partSizeInBytes)),
                                     ready)

\* the callback of the probe GET in start, err = "" on success
probeCallback(s, req, err, ready) ==
  LET partSizeInBytes == options.partSizeInBytes
      body == Body(req)
      s0 == [s EXCEPT !.inflight = @ \ {req}, !.faulted = @ \/ (err /= ""),
                      !.probeError = err]
  IN IF err /= ""
     THEN stop(streamDestroy(s0, err))
     ELSE IF partSizeInBytes = 0
          THEN LET length == parseContentRange(ContentRange(body)).length
                   s1 == emit(objectDownloading(s0, length), "part:downloaded", 1)
               IN IF UploadParts > 1
                  THEN write(s1, body, Cb("probeDone", 1, UploadParts), ready)
                  ELSE streamEnd(streamWrite(s1, body), Cb("probeEnd", 1, 0))
          ELSE LET contentRange == parseContentRange(ProbeContentRange(body))
               IN IF contentRange.throws
                  THEN [s0 EXCEPT !.uncaught = "TypeError"]
                  ELSE IF contentRange.length = -1
                  THEN stop(streamDestroy(s0, "unexpected S3 content range"))
                  ELSE LET s1 == emit(objectDownloading(s0, contentRange.length),
                                      "part:downloaded", 1)
                           s2 == [s1 EXCEPT !.bytesToDownload = contentRange.length]
                       IN IF LessEq(s2.bytesToDownload, partSizeInBytes)
                          THEN streamEnd(streamWrite(s2, body), Cb("probeEnd", 1, 0))
                          ELSE write(s2, body,
                                     Cb("probeDone", 1,
                                        Ceil(s2.bytesToDownload, partSizeInBytes)),
                                     ready)

\* a callback of the nextTick queue, or a listener of 'drain' or 'finish'
Run(s, cb, ready) ==
  CASE cb.k = "downloadNextPart" -> downloadNextPart(s)
    [] cb.k = "drainWriteQueue" -> drainWriteQueue(s, ready)
    [] cb.k = "written" -> written(s, cb.partNo)
    [] cb.k = "partDone" -> partDone(s, cb.partNo)
    [] cb.k = "probeDone" -> probeDone(s, cb.parts)
    [] cb.k = "probeEnd" -> probeEnd(s)

\* ends: how often stream.end was called; listeners: the events the callback
\* of file() waits for; cbs: what that callback was called with, "" = no error
NewSink(kind) ==
  [kind |-> kind, state |-> "open", destroyed |-> FALSE, error |-> "",
   written |-> <<>>, onFinish |-> <<>>, ends |-> 0, listeners |-> {},
   cbs |-> <<>>, needDrain |-> FALSE]

\* the events a stream of Node emits: a Writable 'finish', 'error' and
\* 'close'; a Duplex, which is Readable too, also 'end'
StreamEvents(kind) ==
  IF kind = "WriteStream" THEN {"finish", "error", "close"}
  ELSE {"finish", "error", "close", "end"}

\* stream.once(event, listener) with the listeners of file()
once(s, event) ==
  [s EXCEPT !.sinks[s.stream].listeners = @ \cup {event}]

\* the listeners of file(): () => cb() on 'end', cb on 'error'
fileListener(event, err) ==
  IF event = "error" THEN err ELSE ""

\* the stream emits an event: a listener registered with once() is called
\* and removed
streamEmit(s, k, event, err) ==
  IF event \in StreamEvents(s.sinks[k].kind) /\ event \in s.sinks[k].listeners
  THEN [s EXCEPT !.sinks[k].listeners = @ \ {event},
                 !.sinks[k].cbs = Append(@, fileListener(event, err))]
  ELSE s

\* ---- download(s3source, options) ---------------------------------------
Megabyte ==
  1000000

\* an optional argument: left out, or given with a value
Undefined ==
  [given |-> FALSE, value |-> 0]

Given(v) ==
  [given |-> TRUE, value |-> v]

\* the arguments of a handle that exists already
NoArgs ==
  [partSizeInMegabytes |-> Undefined, concurrency |-> 0,
   waitForWrite |-> FALSE, connectionTimeoutInMilliseconds |-> Undefined]

\* value 0 stands for undefined (no timeout)
mapTimeout(connectionTimeoutInMilliseconds) ==
  IF ~connectionTimeoutInMilliseconds.given THEN [throw |-> FALSE, value |-> 3000]
  ELSE IF connectionTimeoutInMilliseconds.value < 0 THEN [throw |-> TRUE, value |-> 0]
  ELSE [throw |-> FALSE, value |-> connectionTimeoutInMilliseconds.value]

\* mapPartSizeInBytes rejecting negative sizes only
mapPartSizeInBytesNegativeOnly(partSizeInMegabytes) ==
  IF ~partSizeInMegabytes.given THEN [throw |-> FALSE, value |-> 0]
  ELSE IF partSizeInMegabytes.value < 0 THEN [throw |-> TRUE, value |-> 0]
  ELSE [throw |-> FALSE, value |-> partSizeInMegabytes.value * Megabyte]

\* value 0 stands for null (the parts of the upload)
mapPartSizeInBytes(partSizeInMegabytes) ==
  IF ~partSizeInMegabytes.given THEN [throw |-> FALSE, value |-> 0]
  ELSE IF partSizeInMegabytes.value <= 0 THEN [throw |-> TRUE, value |-> 0]
  ELSE [throw |-> FALSE, value |-> partSizeInMegabytes.value * Megabyte]

\* the closure state, in the order of State
svars ==
  <<started, stream, partsToDownload, bytesToDownload, nextPartNo,
    lastWrittenPartNo, partsWaitingForWrite, partsDownloading, aborted, sinks,
    inflight, getCount, probeCount, tickQ, drainWaiters, events,
    abortTransitions, faulted, afterAbort, probeError, metaCalls, metaCache,
    metaProbe, metaWaiters, metaResults, uncaught>>

\* download() throws, or returns the handle
download ==
  /\ handle = "none"
  /\ IF \/ args.concurrency < 1
        \/ mapTimeout(args.connectionTimeoutInMilliseconds).throw
        \/ mapPartSizeInBytes(args.partSizeInMegabytes).throw
     THEN handle' = "rejected" /\ UNCHANGED options
     ELSE /\ handle' = "created"
          /\ options' = [partSizeInBytes |->
                           mapPartSizeInBytes(args.partSizeInMegabytes).value,
                         concurrency |-> args.concurrency,
                         waitForWrite |-> args.waitForWrite]
  /\ UNCHANGED <<svars, calls, abortCalls, objectSize, uploadPartSize,
                 callsAllowed, args, metaAllowed, rr, tr, probeHeader, cache>>

\* ---- the operations of the handle --------------------------------------
readStream ==
  /\ handle = "created"
  /\ calls < callsAllowed
  /\ tickQ = <<>>
  /\ calls' = calls + 1
  /\ UNCHANGED abortCalls
  /\ IF started = FALSE
     THEN Commit(start([State EXCEPT !.sinks = Append(@, NewSink("PassThrough")),
                                     !.stream = Len(sinks) + 1]))
     ELSE Commit(State)

\* file(path, cb), without the counting of the call
fileStart(s) ==
  LET s1 == IF s.started = FALSE
            THEN start([s EXCEPT !.sinks = Append(@, NewSink("WriteStream")),
                                 !.stream = Len(s.sinks) + 1])
            ELSE s
  IN once(once(s1, "end"), "error")

file ==
  /\ handle = "created"
  /\ calls < callsAllowed
  /\ tickQ = <<>>
  /\ calls' = calls + 1
  /\ UNCHANGED abortCalls
  /\ Commit(fileStart(State))

\* abort([err]): the error defaults to 'aborted'
abort ==
  \E err \in {"", "TEST"} :
    /\ stream /= 0
    /\ tickQ = <<>>
    /\ abortCalls < MaxAborts
    /\ abortCalls' = abortCalls + 1
    /\ UNCHANGED calls
    /\ Commit(abortDownloads([State EXCEPT !.faulted = TRUE],
                             IF err = "" THEN "aborted" ELSE err))

\* ---- the events of the environment -------------------------------------
\* a GET ends: with the response, or with an error (the retries are used up,
\* the status is not retriable, or the request was aborted)
Outcomes(req) ==
  IF req.cancelled THEN {"AbortError"}
  ELSE {ErrName(getObjectCallback(NoError, res)) : res \in Responses(req)}

probeCompletes ==
  \E req \in inflight, ready \in BOOLEAN :
    \E err \in Outcomes(req) :
      /\ req.probe
      /\ tickQ = <<>>
      /\ Commit(probeCallback(State, req, err, ready))
      /\ UNCHANGED <<calls, abortCalls>>

partCompletes ==
  \E req \in inflight, ready \in BOOLEAN :
    \E err \in Outcomes(req) :
      /\ ~req.probe
      /\ tickQ = <<>>
      /\ Commit(partCallback(State, req, err, ready))
      /\ UNCHANGED <<calls, abortCalls>>

\* the next callback of the process.nextTick queue
tick ==
  \E ready \in BOOLEAN :
    /\ tickQ /= <<>>
    /\ Commit(Run([State EXCEPT !.tickQ = Tail(@)], Head(tickQ), ready))
    /\ UNCHANGED <<calls, abortCalls>>

\* the sink emits 'drain': the listeners waiting for it run, in the order in
\* which they were registered, before anything queued with nextTick
drain ==
  \E k \in 1..Len(sinks) :
    LET IsOfK(w) == w.stream = k
        IsOther(w) == w.stream /= k
        waiting == SelectSeq(drainWaiters, IsOfK)
        rest == [i \in 1..(Len(waiting) - 1) |-> waiting[i + 1].cb]
    IN /\ tickQ = <<>>
       /\ SinkOpen(sinks[k])
       /\ waiting /= <<>>
       /\ Commit(Run([State EXCEPT !.drainWaiters = SelectSeq(@, IsOther),
                                   !.tickQ = rest,
                                   !.sinks[k].needDrain = FALSE],
                     waiting[1].cb, FALSE))
       /\ UNCHANGED <<calls, abortCalls>>

\* the sink emits 'finish': everything handed to it is flushed
finish ==
  \E k \in 1..Len(sinks) :
    /\ tickQ = <<>>
    /\ sinks[k].state = "ending"
    /\ ~sinks[k].destroyed
    /\ \A i \in 1..Len(drainWaiters) : drainWaiters[i].stream /= k
    /\ Commit(streamEmit(streamEmit(Run([State EXCEPT !.sinks[k].state = "finished",
                                                      !.sinks[k].onFinish = Tail(@)],
                                        Head(sinks[k].onFinish), FALSE),
                                    k, "finish", ""),
                         k, "close", ""))
    /\ UNCHANGED <<calls, abortCalls>>

\* a sink destroyed with an error emits 'error'
streamError ==
  \E k \in 1..Len(sinks) :
    /\ tickQ = <<>>
    /\ sinks[k].destroyed
    /\ sinks[k].error /= ""
    /\ "error" \in sinks[k].listeners
    /\ Commit(streamEmit(State, k, "error", sinks[k].error))
    /\ UNCHANGED <<calls, abortCalls>>

\* ---- meta(cb) and the memoized probe -----------------------------------
\* what a meta() callback is called with: the error, or the length of the
\* object and, for an object uploaded in several parts, their number
metadata(probe) ==
  IF probe.err /= ""
  THEN [err |-> probe.err, lengthInBytes |-> -1, parts |-> -1]
  ELSE [err |-> "",
        lengthInBytes |-> parseContentRange(ContentRange(Body(probe.req))).length,
        parts |-> IF ~probe.req.range /\ UploadParts > 1 THEN UploadParts ELSE -1]

\* the GET of part 1, as start issues it
probeGet(s) ==
  IF options.partSizeInBytes = 0
  THEN getObject(s, 1, TRUE, FALSE, 0, 0)
  ELSE getObject(s, 1, TRUE, TRUE, 0, options.partSizeInBytes - 1)

\* the probe issued at every call
probeAlways(s) ==
  [probeGet(s) EXCEPT !.metaCache = IF s.metaCache = "resolved" THEN @ ELSE "pending"]

\* the probe is issued once: later calls share it while it is under way and
\* its result afterwards
probeOnce(s) ==
  IF s.metaCache = "none"
  THEN [probeGet(s) EXCEPT !.metaCache = "pending"]
  ELSE s

metaCall(s) ==
  LET s1 == probeOnce(s)
  IN IF s1.metaCache = "resolved"
     THEN [s1 EXCEPT !.metaResults = Append(@, metadata(s1.metaProbe[1]))]
     ELSE [s1 EXCEPT !.metaWaiters = Append(@, "meta")]

\* start of a download whose probe may be memoized: the body of the probe is
\* part 1
startMemoized(s, ready) ==
  LET s1 == probeOnce(emit(s, "part:downloading", 1))
  IN IF s1.metaCache = "resolved"
     THEN probeCallback(s1, s1.metaProbe[1].req, s1.metaProbe[1].err, ready)
     ELSE [s1 EXCEPT !.metaWaiters = Append(@, "start")]

\* the probe has ended: those who wait for it are served in their order
RECURSIVE settle(_, _, _, _)
settle(s, waiters, probe, ready) ==
  IF waiters = <<>> THEN s
  ELSE settle(IF Head(waiters) = "meta"
              THEN [s EXCEPT !.metaResults = Append(@, metadata(probe))]
              ELSE probeCallback(s, probe.req, probe.err, ready),
              Tail(waiters), probe, ready)

meta ==
  /\ handle = "created"
  /\ metaCalls < metaAllowed
  /\ tickQ = <<>>
  /\ Commit(metaCall([State EXCEPT !.metaCalls = @ + 1]))
  /\ UNCHANGED <<calls, abortCalls>>

readStreamMemoized ==
  \E ready \in BOOLEAN :
    /\ handle = "created"
    /\ calls < callsAllowed
    /\ tickQ = <<>>
    /\ calls' = calls + 1
    /\ UNCHANGED abortCalls
    /\ Commit(startMemoized([State EXCEPT !.sinks = Append(@, NewSink("PassThrough")),
                                          !.stream = Len(sinks) + 1], ready))

fileMemoized ==
  \E ready \in BOOLEAN :
    /\ handle = "created"
    /\ calls < callsAllowed
    /\ tickQ = <<>>
    /\ calls' = calls + 1
    /\ UNCHANGED abortCalls
    /\ Commit(once(once(startMemoized([State EXCEPT
                                          !.sinks = Append(@, NewSink("WriteStream")),
                                          !.stream = Len(sinks) + 1], ready),
                        "end"), "error"))

\* the probe GET ends
probeSettles ==
  \E get \in inflight, ready \in BOOLEAN :
    \E err \in Outcomes(get) :
      /\ get.probe
      /\ tickQ = <<>>
      /\ Commit(settle([State EXCEPT !.inflight = @ \ {get},
                                      !.metaCache = "resolved",
                                      !.metaProbe = <<[req |-> get, err |-> err]>>,
                                      !.metaWaiters = <<>>],
                        metaWaiters, [req |-> get, err |-> err], ready))
      /\ UNCHANGED <<calls, abortCalls>>

\* ---- retryrequest and request ------------------------------------------
RETRIABLE_NETWORK_ERROR_CODES ==
  {"ECONNRESET", "ENOTFOUND", "ESOCKETTIMEDOUT", "ETIMEDOUT", "ECONNREFUSED",
   "EHOSTUNREACH", "EPIPE", "EAI_AGAIN", "EBUSY"}

\* maxAttempts of the GETs of getObject and of the requests of imdsRequest
S3MaxAttempts ==
  5
ImdsMaxAttempts ==
  3

\* no call of retryrequest yet.  caller: who called ("getObject" passes a
\* signal, "imdsRequest" does not); aborted: signal.aborted; attempt: the
\* counter of retryrequest; http: the ClientRequest of the request under way
\* ("none", "pending": no response yet, "response": headers received,
\* "closed"); res: the response being received; sent: requests issued;
\* reqCbs: how often request called back for the request under way; log: what
\* request called back with, per attempt; cbs: what retryrequest called back
\* with; results: what the caller's callback passed on
NoCall ==
  [phase |-> "idle", caller |-> "", maxAttempts |-> 0, aborted |-> FALSE,
   attempt |-> 0, http |-> "none", res |-> NoRes, sent |-> 0, reqCbs |-> 0,
   log |-> <<>>, cbs |-> <<>>, results |-> <<>>]

\* signal.reason, and the error of a request destroyed by its signal
AbortReason ==
  Err("This operation was aborted", 0, "ABORT_ERR", 0)

\* the error of a request aborted before it got a response
SocketHangUp ==
  Err("socket hang up", 0, "ECONNRESET", 0)

\* the callback imdsRequest hands to retryrequest
imdsRequestCallback(err, res) ==
  IF err /= NoError THEN err
  ELSE IF res.statusCode = 200 THEN NoError
  ELSE Err("unexpected IMDS status code", res.statusCode, "", 0)

\* cb of retryrequest: the callback of getObject or of imdsRequest
cb(r, err, res) ==
  [r EXCEPT !.phase = "done",
            !.cbs = Append(@, [err |-> err, res |-> res]),
            !.results = Append(@, IF r.caller = "getObject"
                                  THEN getObjectCallback(err, res)
                                  ELSE imdsRequestCallback(err, res))]

\* request(): the request is written and ended, its events follow
request(r) ==
  [r EXCEPT !.http = "pending", !.res = NoRes, !.sent = @ + 1, !.reqCbs = 0]

req(r) ==
  request([r EXCEPT !.phase = "request"])

\* retry allowing one attempt more than maxAttempts
retryOneMore(r, err) ==
  LET r1 == [r EXCEPT !.attempt = @ + 1]
  IN IF r1.attempt <= r1.maxAttempts + 1
     THEN [r1 EXCEPT !.phase = "backoff"]
     ELSE cb(r1, err, NoRes)

\* retry: the next attempt after a delay, or the error
retry(r, err) ==
  LET r1 == [r EXCEPT !.attempt = @ + 1]
  IN IF r1.attempt <= r1.maxAttempts
     THEN [r1 EXCEPT !.phase = "backoff"]
     ELSE cb(r1, err, NoRes)

\* the callback of setTimeout in retry that never looks at the signal
timeoutCallbackIgnoresSignal(r) ==
  req(r)

\* the callback of setTimeout in retry
timeoutCallback(r) ==
  IF r.caller = "getObject"
  THEN IF r.aborted = TRUE THEN cb(r, AbortReason, NoRes) ELSE req(r)
  ELSE req(r)

\* the error retry is called with for a response of status 429 or 5xx
StatusError(res) ==
  Err("status code", res.statusCode, "", 0)

\* the callback of request retrying whatever the error
requestCallbackRetriesAll(r, err, res) ==
  LET r0 == [r EXCEPT !.reqCbs = @ + 1, !.http = "closed",
                      !.log = Append(@, [err |-> err, res |-> res])]
  IN IF err /= NoError
     THEN retry(r0, err)
     ELSE IF res.statusCode = 429 \/ (res.statusCode >= 500 /\ res.statusCode <= 599)
          THEN retry(r0, StatusError(res))
          ELSE cb(r0, NoError, res)

\* the callback retryrequest hands to request
requestCallback(r, err, res) ==
  LET r0 == [r EXCEPT !.reqCbs = @ + 1, !.http = "closed",
                      !.log = Append(@, [err |-> err, res |-> res])]
  IN IF err /= NoError
     THEN IF err.code \in RETRIABLE_NETWORK_ERROR_CODES
          THEN retry(r0, err)
          ELSE cb(r0, err, NoRes)
     ELSE IF res.statusCode = 429 \/ (res.statusCode >= 500 /\ res.statusCode <= 599)
          THEN retry(r0, StatusError(res))
          ELSE cb(r0, NoError, res)

\* the state of the download and of the request under its timeout profile
dvars ==
  <<svars, calls, abortCalls, options, objectSize, uploadPartSize, callsAllowed,
    handle, args, metaAllowed, tr, probeHeader, cache>>

\* getObject or imdsRequest calls retryrequest
retryrequest ==
  \E caller \in {"getObject", "imdsRequest"} :
    /\ rr.phase = "idle"
    /\ rr' = req([rr EXCEPT !.caller = caller, !.attempt = 1,
                            !.maxAttempts = IF caller = "getObject"
                                            THEN S3MaxAttempts
                                            ELSE ImdsMaxAttempts])
    /\ UNCHANGED dvars

\* the responses a server may send
HttpResponses ==
  {Res(206, "binary/octet-stream", "bytes", ""),
   Res(200, "text/plain", "text", ""),
   Res(403, "application/xml", "Error", "AccessDenied"),
   Res(404, "application/xml", "Error", "NoSuchKey"),
   Res(403, "application/xml", "malformed", ""),
   Res(403, "text/html", "text", ""),
   Res(429, "text/html", "text", ""),
   Res(500, "", "text", ""),
   Res(503, "application/xml", "Error", "SlowDown")}

\* 'response': the headers of the response arrive
response ==
  \E res \in HttpResponses :
    /\ rr.http = "pending"
    /\ rr' = [rr EXCEPT !.http = "response", !.res = res]
    /\ UNCHANGED dvars

\* 'end' of the response: request calls back with the response and its body
responseEnd ==
  /\ rr.http = "response"
  /\ rr' = requestCallback(rr, NoError, rr.res)
  /\ UNCHANGED dvars

\* 'error' of the request: the connection failed before a response came
requestError ==
  \E code \in {"ECONNRESET", "EPIPE", "CERT_HAS_EXPIRED"} :
    /\ rr.http = "pending"
    /\ rr' = requestCallback(rr, Err(code, 0, code, 0), NoRes)
    /\ UNCHANGED dvars

\* 'timeout' of the request: req.abort().  Before the response the request
\* emits 'error' (socket hang up); after it only the response is aborted
timeout ==
  /\ rr.http \in {"pending", "response"}
  /\ rr' = IF rr.http = "pending"
           THEN requestCallback(rr, SocketHangUp, NoRes)
           ELSE [rr EXCEPT !.http = "closed"]
  /\ UNCHANGED dvars

\* the connection is closed while the body of the response is read: the
\* response emits 'aborted', the request emits no 'error'
connectionClosed ==
  /\ rr.http = "response"
  /\ rr' = [rr EXCEPT !.http = "closed"]
  /\ UNCHANGED dvars

\* the AbortController of getObject aborts: signal.aborted is true; a request
\* without response emits 'error', a response under way is destroyed
signalAbort ==
  /\ rr.caller = "getObject"
  /\ rr.phase \in {"request", "backoff"}
  /\ ~rr.aborted
  /\ rr' = LET r1 == [rr EXCEPT !.aborted = TRUE]
           IN IF rr.http = "pending" THEN requestCallback(r1, AbortReason, NoRes)
              ELSE IF rr.http = "response" THEN [r1 EXCEPT !.http = "closed"]
              ELSE r1
  /\ UNCHANGED dvars

\* the delay of retry is over
backoffElapsed ==
  /\ rr.phase = "backoff"
  /\ rr' = timeoutCallback(rr)
  /\ UNCHANGED dvars

\* ---- a request under its timeout profile -------------------------------
Deadlines ==
  {"resolve", "connection", "write", "read", "data", "request"}

\* the name of the error a deadline produces
TimeoutErrorName(kind) ==
  CASE kind = "resolve" -> "ResolveTimeoutError"
    [] kind = "connection" -> "ConnectionTimeoutError"
    [] kind = "write" -> "WriteTimeoutError"
    [] kind = "read" -> "ReadTimeoutError"
    [] kind = "data" -> "DataTimeoutError"
    [] kind = "request" -> "RequestTimeoutError"

\* no request yet.  profile: the deadlines that are not disabled (not 0);
\* stage: "idle", "resolve", "connect", "write", "wait" (for the headers),
\* "read" (the body), "done"; timers: the timers that are set; fired: the
\* deadlines that fired; completion: what the callback was called with;
\* chunks: the chunks of the body read so far
NoRequest ==
  [profile |-> {}, stage |-> "idle", timers |-> {}, fired |-> <<>>,
   completion |-> <<>>, chunks |-> 0]

\* a stage ends and the next begins: the timer of the one is cleared, the
\* timers of the other are set
enter(r, stage, cleared, set) ==
  [r EXCEPT !.stage = stage,
            !.timers = (@ \ cleared) \cup (set \cap r.profile)]

\* the request completes: every timer is cleared
complete(r, result) ==
  [r EXCEPT !.stage = "done", !.timers = {},
            !.completion = Append(@, result)]

\* a deadline fires and leaves the other timers set
deadlineFiresKeepsTimers(r, kind) ==
  LET r1 == [r EXCEPT !.fired = Append(@, kind), !.timers = @ \ {kind},
                      !.completion = Append(@, TimeoutErrorName(kind))]
  IN [r1 EXCEPT !.stage = "done"]

\* a deadline fires: the request fails with the error of that deadline
deadlineFires(r, kind) ==
  complete([r EXCEPT !.fired = Append(@, kind)], TimeoutErrorName(kind))

\* the state of the download and of retryrequest
uvars ==
  <<svars, calls, abortCalls, options, objectSize, uploadPartSize, callsAllowed,
    handle, args, metaAllowed, rr, probeHeader, cache>>

requestStarts ==
  /\ tr.stage = "idle"
  /\ tr' = enter(tr, "resolve", {}, {"request", "resolve"})
  /\ UNCHANGED uvars

resolved ==
  /\ tr.stage = "resolve"
  /\ tr' = enter(tr, "connect", {"resolve"}, {"connection"})
  /\ UNCHANGED uvars

connected ==
  /\ tr.stage = "connect"
  /\ tr' = enter(tr, "write", {"connection"}, {"write"})
  /\ UNCHANGED uvars

requestWritten ==
  /\ tr.stage = "write"
  /\ tr' = enter(tr, "wait", {"write"}, {})
  /\ UNCHANGED uvars

headersReceived ==
  /\ tr.stage = "wait"
  /\ tr' = enter(tr, "read", {}, {"read", "data"})
  /\ UNCHANGED uvars

\* a chunk of the body arrives in time: the data timer starts again
chunkReceived ==
  /\ tr.stage = "read"
  /\ tr.chunks < MaxChunks
  /\ tr' = [tr EXCEPT !.chunks = @ + 1]
  /\ UNCHANGED uvars

bodyEnds ==
  /\ tr.stage = "read"
  /\ tr' = complete(tr, "ok")
  /\ UNCHANGED uvars

\* the timer of a deadline goes off
deadline ==
  \E kind \in tr.timers :
    /\ tr' = deadlineFires(tr, kind)
    /\ UNCHANGED uvars

\* ---- the caches of the module ------------------------------------------
AWS_CREDENTIALS_MAX_AGE_IN_MILLISECONDS ==
  240000
DNS_RECORD_MAX_AGE_IN_MILLISECONDS ==
  10000

\* how often a getter is called, how many A records a resolve returns, how
\* far the clock goes (in steps of half a max age)
MaxLookups ==
  3
MaxRecords ==
  2
MaxClockSteps ==
  4
MaxClears ==
  1

\* the module after it was loaded, or after clearCache(): no region, no
\* credentials and no DNS records are cached (0 = undefined).  promises: the
\* promises made so far, a cache holds the index of one; jobs: the callbacks
\* of then() that are due, in order; io: the dns.resolve and imds calls
\* under way; now: Date.now(); results: what the callbacks of the getters
\* were called with; lookups, fetches: the calls of the getters and of
\* dns.resolve or imds so far; clears: the calls of clearCache so far; env:
\* the environment variables are set
EmptyCache ==
  [imdsRegionCache |-> 0, imdsCredentialsCache |-> 0, dnsCache |-> 0,
   promises |-> <<>>, jobs |-> <<>>, io |-> {}, now |-> 0, results |-> <<>>,
   lookups |-> 0, fetches |-> 0, clears |-> 0, env |-> FALSE]

\* the value of a promise: the object it was resolved with (records and
\* ringIndex of DNS, cachedAt, NaN where the object has none), or the error
\* it was rejected with
Value(records, cachedAt, err) ==
  [ringIndex |-> 0, records |-> records, cachedAt |-> cachedAt, err |-> err]

NoValue ==
  Value(<<>>, NaN, "")

\* new Promise(...): the promise gets the next index
newPromise(c) ==
  [c EXCEPT !.promises = Append(@, [state |-> "pending", value |-> NoValue,
                                    reactions |-> <<>>])]

\* resolve(value) or reject(err): the callbacks waiting become due
settlePromise(c, p, state, value) ==
  [c EXCEPT !.promises[p] = [state |-> state, value |-> value, reactions |-> <<>>],
            !.jobs = @ \o c.promises[p].reactions]

\* promise.then(f).catch(cb): f or cb is due once the promise is settled.  fn:
\* the getter; fresh: f is the callback of the branch that refreshed
then(c, p, fn, fresh, caller, askedAt) ==
  LET reaction == [p |-> p, fn |-> fn, fresh |-> fresh, caller |-> caller,
             askedAt |-> askedAt]
  IN IF c.promises[p].state = "pending"
     THEN [c EXCEPT !.promises[p].reactions = Append(@, reaction)]
     ELSE [c EXCEPT !.jobs = Append(@, reaction)]

\* cb(err) or cb(null, value)
callback(c, reaction, err, record) ==
  [c EXCEPT !.results = Append(@, [fn |-> reaction.fn, caller |-> reaction.caller, err |-> err,
                                   record |-> record, p |-> reaction.p,
                                   cachedAt |-> c.promises[reaction.p].value.cachedAt,
                                   askedAt |-> reaction.askedAt, at |-> c.now])]

\* Date.now() - cachedAt > maxAge; with cachedAt undefined the difference is NaN
Expired(c, p, maxAge) ==
  LET cachedAt == c.promises[p].value.cachedAt
  IN cachedAt /= NaN /\ (c.now - cachedAt) > maxAge

refreshAwsRegion(c) ==
  LET c1 == newPromise(c)
      p == Len(c1.promises)
      c2 == [c1 EXCEPT !.imdsRegionCache = p]
  IN IF c.env
     THEN settlePromise(c2, p, "resolved", NoValue)
     ELSE [c2 EXCEPT !.io = @ \cup {[op |-> "imds.region", p |-> p, stage |-> 1]},
                     !.fetches = @ + 1]

getAwsRegion(c, caller) ==
  IF c.imdsRegionCache = 0
  THEN LET c1 == refreshAwsRegion(c)
       IN then(c1, c1.imdsRegionCache, "region", TRUE, caller, c.now)
  ELSE then(c, c.imdsRegionCache, "region", FALSE, caller, c.now)

refreshAwsCredentials(c) ==
  LET c1 == newPromise(c)
      p == Len(c1.promises)
      c2 == [c1 EXCEPT !.imdsCredentialsCache = p]
  IN IF c.env
     THEN settlePromise(c2, p, "resolved", NoValue)
     ELSE [c2 EXCEPT !.io = @ \cup {[op |-> "imds.credentials", p |-> p, stage |-> 1]},
                     !.fetches = @ + 1]

\* getAwsCredentials serving whatever is cached
getAwsCredentialsOfAnyAge(c, caller, askedAt) ==
  IF c.imdsCredentialsCache = 0
  THEN LET c1 == refreshAwsCredentials(c)
       IN then(c1, c1.imdsCredentialsCache, "credentials", TRUE, caller, askedAt)
  ELSE then(c, c.imdsCredentialsCache, "credentials", TRUE, caller, askedAt)

getAwsCredentials(c, caller, askedAt) ==
  IF c.imdsCredentialsCache = 0
  THEN LET c1 == refreshAwsCredentials(c)
       IN then(c1, c1.imdsCredentialsCache, "credentials", TRUE, caller, askedAt)
  ELSE then(c, c.imdsCredentialsCache, "credentials", FALSE, caller, askedAt)

\* getRecord leaving the ring index where it is
getRecordSame(dns) ==
  [record |-> dns.records[dns.ringIndex + 1], dns |-> dns]

\* this.records[this.ringIndex++], the index wrapping around
getRecord(dns) ==
  [record |-> dns.records[dns.ringIndex + 1],
   dns |-> [dns EXCEPT !.ringIndex = IF @ + 1 >= Len(dns.records) THEN 0 ELSE @ + 1]]

refreshDnsCache(c) ==
  LET c1 == newPromise(c)
      p == Len(c1.promises)
  IN [c1 EXCEPT !.dnsCache = p,
                !.io = @ \cup {[op |-> "dns.resolve", p |-> p, stage |-> 1]},
                !.fetches = @ + 1]

\* getDnsCache serving whatever is cached
getDnsCacheOfAnyAge(c, caller, askedAt) ==
  IF c.dnsCache = 0
  THEN LET c1 == refreshDnsCache(c)
       IN then(c1, c1.dnsCache, "dns", TRUE, caller, askedAt)
  ELSE then(c, c.dnsCache, "dns", TRUE, caller, askedAt)

getDnsCache(c, caller, askedAt) ==
  IF c.dnsCache = 0
  THEN LET c1 == refreshDnsCache(c)
       IN then(c1, c1.dnsCache, "dns", TRUE, caller, askedAt)
  ELSE then(c, c.dnsCache, "dns", FALSE, caller, askedAt)

\* the callback a getter passed to then(), or cb passed to catch()
runJob(c, reaction) ==
  LET promise == c.promises[reaction.p]
  IN IF promise.state = "rejected"
     THEN callback(c, reaction, promise.value.err, 0)
     ELSE CASE reaction.fn = "region" -> callback(c, reaction, "", 0)
            [] reaction.fn = "credentials" ->
                 IF ~reaction.fresh
                    /\ Expired(c, reaction.p, AWS_CREDENTIALS_MAX_AGE_IN_MILLISECONDS)
                 THEN getAwsCredentials([c EXCEPT !.imdsCredentialsCache = 0],
                                        reaction.caller, reaction.askedAt)
                 ELSE callback(c, reaction, "", 0)
            [] reaction.fn = "dns" ->
                 IF ~reaction.fresh
                    /\ Expired(c, reaction.p, DNS_RECORD_MAX_AGE_IN_MILLISECONDS)
                 THEN getDnsCache([c EXCEPT !.dnsCache = 0],
                                  reaction.caller, reaction.askedAt)
                 ELSE LET got == getRecord(promise.value)
                      IN callback([c EXCEPT !.promises[reaction.p].value = got.dns],
                                  reaction, "", got.record)

\* the variables the caches leave alone
cvars ==
  <<svars, calls, abortCalls, options, objectSize, uploadPartSize, callsAllowed,
    handle, args, metaAllowed, rr, tr, probeHeader>>

\* exports.clearCache()
clearCache ==
  /\ cache.clears < MaxClears
  /\ cache' = [cache EXCEPT !.imdsRegionCache = 0, !.imdsCredentialsCache = 0,
                            !.dnsCache = 0, !.clears = @ + 1]
  /\ UNCHANGED cvars

\* a request asks for the region
regionLookup ==
  /\ cache.lookups < MaxLookups
  /\ cache' = getAwsRegion([cache EXCEPT !.lookups = @ + 1], cache.lookups + 1)
  /\ UNCHANGED cvars

\* a request asks for credentials
credentialsLookup ==
  /\ cache.lookups < MaxLookups
  /\ cache' = getAwsCredentials([cache EXCEPT !.lookups = @ + 1],
                                cache.lookups + 1, cache.now)
  /\ UNCHANGED cvars

\* a request looks the hostname up
dnsLookup ==
  /\ cache.lookups < MaxLookups
  /\ cache' = getDnsCache([cache EXCEPT !.lookups = @ + 1], cache.lookups + 1,
                          cache.now)
  /\ UNCHANGED cvars

\* the next callback that is due runs; they run before any other event
job ==
  /\ cache.jobs /= <<>>
  /\ cache' = runJob([cache EXCEPT !.jobs = Tail(@)], Head(cache.jobs))
  /\ UNCHANGED cvars

\* imds calls back: with an error, or with the identity document; or, for
\* the credentials, with the name of the role and then with its credentials
imdsResponds ==
  \E call \in cache.io, ok \in BOOLEAN :
    /\ call.op \in {"imds.region", "imds.credentials"}
    /\ cache.jobs = <<>>
    /\ LET c == [cache EXCEPT !.io = @ \ {call}]
       IN cache' =
            IF ~ok
            THEN settlePromise(c, call.p, "rejected", Value(<<>>, NaN, "imds"))
            ELSE IF call.op = "imds.credentials" /\ call.stage = 1
                 THEN [c EXCEPT !.io = @ \cup {[call EXCEPT !.stage = 2]}]
                 ELSE IF call.op = "imds.credentials"
                      THEN settlePromise(c, call.p, "resolved", Value(<<>>, c.now, ""))
                      ELSE settlePromise(c, call.p, "resolved", NoValue)
    /\ UNCHANGED cvars

\* dns.resolve calls back: with an error, with no record, or with n records
dnsResolved ==
  \E call \in cache.io, n \in -1..MaxRecords :
    /\ call.op = "dns.resolve"
    /\ cache.jobs = <<>>
    /\ LET c == [cache EXCEPT !.io = @ \ {call}]
       IN cache' =
            IF n = -1
            THEN settlePromise(c, call.p, "rejected", Value(<<>>, NaN, "ENOTFOUND"))
            ELSE IF n = 0
                 THEN settlePromise(c, call.p, "rejected",
                                    Value(<<>>, NaN, "no DNS records returned"))
                 ELSE settlePromise(c, call.p, "resolved",
                                    Value([i \in 1..n |-> i], c.now, ""))
    /\ UNCHANGED cvars

\* time passes, by half a max age, when no callback is due
timePasses(step) ==
  /\ cache.jobs = <<>>
  /\ cache.now < MaxClockSteps * step
  /\ cache' = [cache EXCEPT !.now = @ + step]
  /\ UNCHANGED cvars

dnsClock ==
  timePasses(DNS_RECORD_MAX_AGE_IN_MILLISECONDS \div 2)

credentialsClock ==
  timePasses(AWS_CREDENTIALS_MAX_AGE_IN_MILLISECONDS \div 2)

\* ---- specifications ----------------------------------------------------
\* partSizeInBytes = 0 stands for null: the parts are those of the upload
Configs ==
  [partSizeInBytes : {0} \cup (2..MaxPartSize), concurrency : 1..MaxConcurrency,
   waitForWrite : BOOLEAN]

\* the closure state of download() when it returns
InitState ==
  /\ started = FALSE
  /\ stream = 0
  /\ partsToDownload = -1
  /\ bytesToDownload = -1
  /\ nextPartNo = -1
  /\ lastWrittenPartNo = -1
  /\ partsWaitingForWrite = <<>>
  /\ partsDownloading = <<>>
  /\ aborted = FALSE
  /\ sinks = <<>>
  /\ inflight = {}
  /\ getCount = 0
  /\ probeCount = 0
  /\ tickQ = <<>>
  /\ drainWaiters = <<>>
  /\ events = <<>>
  /\ calls = 0
  /\ abortCalls = 0
  /\ abortTransitions = 0
  /\ faulted = FALSE
  /\ afterAbort = <<>>
  /\ probeError = ""
  /\ metaCalls = 0
  /\ metaCache = "none"
  /\ metaProbe = <<>>
  /\ metaWaiters = <<>>
  /\ metaResults = <<>>
  /\ uncaught = ""

InitHandle ==
  /\ options \in Configs
  /\ objectSize \in 0..MaxSize
  /\ uploadPartSize \in 2..MaxUploadPartSize
  /\ options.partSizeInBytes /= 0 => uploadPartSize = 2
  /\ InitState

\* download() has returned the handle
Created ==
  /\ handle = "created"
  /\ args = NoArgs

\* S3 sends the right Content-Range and nothing has used the caches
Quiet ==
  /\ probeHeader = "right"
  /\ cache = EmptyCache

\* no retryrequest call and no request of its own is under way
NoRequests ==
  /\ rr = NoCall
  /\ tr = NoRequest
  /\ Quiet

\* the caller starts the download once
Init ==
  /\ InitHandle
  /\ Created
  /\ objectSize >= 1
  /\ callsAllowed = 1
  /\ metaAllowed = 0
  /\ NoRequests

\* the caller calls readStream() and file() up to MaxCalls times
InitCalls ==
  /\ InitHandle
  /\ Created
  /\ objectSize >= 1
  /\ metaAllowed = 0
  /\ NoRequests
  /\ objectSize <= CallsMaxSize
  /\ options.concurrency <= CallsMaxConcurrency
  /\ callsAllowed = MaxCalls

Next ==
  \/ readStream
  \/ file
  \/ abort
  \/ probeCompletes
  \/ partCompletes
  \/ tick
  \/ drain
  \/ finish

Spec ==
  Init /\ [][Next]_vars

SpecCalls ==
  InitCalls /\ [][Next]_vars

\* a download into a file, with the 'error' event of the sink.  streamError
\* changes the listeners and the calls of the callback of file() and nothing
\* else, and no other action reads them.
NextFile ==
  \/ file
  \/ abort
  \/ probeCompletes
  \/ partCompletes
  \/ tick
  \/ drain
  \/ finish
  \/ streamError

SpecFile ==
  Init /\ [][NextFile]_vars

\* every GET ends, the nextTick queue runs, the sink drains and finishes
Fairness ==
  /\ WF_vars(probeCompletes)
  /\ WF_vars(partCompletes)
  /\ WF_vars(tick)
  /\ WF_vars(drain)
  /\ WF_vars(finish)

InitLive ==
  /\ InitHandle
  /\ Created
  /\ objectSize >= 1
  /\ metaAllowed = 0
  /\ NoRequests
  /\ objectSize <= LiveMaxSize
  /\ callsAllowed = 1

LiveSpec ==
  InitLive /\ [][Next]_vars /\ Fairness

\* the object may be empty
InitEmpty ==
  /\ InitHandle
  /\ Created
  /\ objectSize <= EmptyMaxSize
  /\ callsAllowed = 1
  /\ metaAllowed = 0
  /\ NoRequests

SpecEmpty ==
  InitEmpty /\ [][Next]_vars

\* the options download() may be called with
Args ==
  [partSizeInMegabytes : {Undefined} \cup {Given(v) : v \in -1..1},
   concurrency : -1..CreateMaxConcurrency,
   waitForWrite : BOOLEAN,
   connectionTimeoutInMilliseconds : {Undefined} \cup {Given(v) : v \in -1..1}]

\* before download() is called; the object was uploaded in parts of 1 MB
InitCreate ==
  /\ InitState
  /\ handle = "none"
  /\ args \in Args
  /\ options = [partSizeInBytes |-> 0, concurrency |-> 1, waitForWrite |-> FALSE]
  /\ objectSize \in {k * (Megabyte \div 2) : k \in 1..CreateMaxHalves}
  /\ uploadPartSize = Megabyte
  /\ callsAllowed = 1
  /\ metaAllowed = 0
  /\ NoRequests

NextCreate ==
  \/ download
  \/ readStream
  \/ file
  \/ probeCompletes
  \/ partCompletes
  \/ tick
  \/ drain
  \/ finish

SpecCreate ==
  InitCreate /\ [][NextCreate]_vars

\* the caller calls meta() up to MaxMetaCalls times and starts the download
InitMeta ==
  /\ InitHandle
  /\ Created
  /\ objectSize \in 1..MetaMaxSize
  /\ callsAllowed = 1
  /\ metaAllowed = MaxMetaCalls
  /\ NoRequests

NextMeta ==
  \/ meta
  \/ readStreamMemoized
  \/ fileMemoized
  \/ probeSettles
  \/ partCompletes
  \/ tick
  \/ drain
  \/ finish

SpecMeta ==
  InitMeta /\ [][NextMeta]_vars

\* a handle that is never started, for the runs of one request
IdleHandle ==
  /\ InitState
  /\ Created
  /\ options = [partSizeInBytes |-> 0, concurrency |-> 1, waitForWrite |-> FALSE]
  /\ objectSize = 1
  /\ uploadPartSize = 2
  /\ callsAllowed = 0
  /\ metaAllowed = 0

InitRetry ==
  /\ IdleHandle
  /\ rr = NoCall
  /\ tr = NoRequest
  /\ Quiet

NextRetry ==
  \/ retryrequest
  \/ response
  \/ responseEnd
  \/ requestError
  \/ timeout
  \/ connectionClosed
  \/ signalAbort
  \/ backoffElapsed

\* the timer of a backoff fires
SpecRetry ==
  InitRetry /\ [][NextRetry]_vars /\ WF_vars(backoffElapsed)

InitTimeouts ==
  /\ IdleHandle
  /\ rr = NoCall
  /\ tr \in {[NoRequest EXCEPT !.profile = p] : p \in SUBSET Deadlines}
  /\ Quiet

NextTimeouts ==
  \/ requestStarts
  \/ resolved
  \/ connected
  \/ requestWritten
  \/ headersReceived
  \/ chunkReceived
  \/ bodyEnds
  \/ deadline

SpecTimeouts ==
  InitTimeouts /\ [][NextTimeouts]_vars

\* a download in range mode; S3 answers the probe with any of Headers
InitRange ==
  /\ InitHandle
  /\ Created
  /\ objectSize >= 1
  /\ options.partSizeInBytes /= 0
  /\ callsAllowed = 1
  /\ metaAllowed = 0
  /\ rr = NoCall
  /\ tr = NoRequest
  /\ cache = EmptyCache
  /\ probeHeader \in Headers

SpecRange ==
  InitRange /\ [][Next]_vars

\* the module is loaded and no download is started: the requests of other
\* downloads use the caches
InitCache ==
  /\ IdleHandle
  /\ rr = NoCall
  /\ tr = NoRequest
  /\ probeHeader = "right"
  /\ cache \in {[EmptyCache EXCEPT !.env = e] : e \in BOOLEAN}

NextRegion ==
  \/ regionLookup
  \/ imdsResponds
  \/ job
  \/ clearCache

SpecRegion ==
  InitCache /\ [][NextRegion]_vars

NextCredentials ==
  \/ credentialsLookup
  \/ imdsResponds
  \/ job
  \/ credentialsClock

SpecCredentials ==
  InitCache /\ [][NextCredentials]_vars

NextDns ==
  \/ dnsLookup
  \/ dnsResolved
  \/ job
  \/ dnsClock

SpecDns ==
  InitCache /\ [][NextDns]_vars

\* ---- properties --------------------------------------------------------
EventNos(name) ==
  LET Is(e) == e.name = name
      sel == SelectSeq(events, Is)
  IN [i \in 1..Len(sel) |-> sel[i].partNo]

Before(name1, n1, name2, n2) ==
  \E i, j \in 1..Len(events) :
    /\ i < j
    /\ events[i] = [name |-> name1, partNo |-> n1]
    /\ events[j] = [name |-> name2, partNo |-> n2]

RECURSIVE SumLen(_)
SumLen(seq) ==
  IF seq = <<>> THEN 0 ELSE Head(seq).len + SumLen(Tail(seq))

\* the sink is closed and flushed
Finished ==
  stream /= 0 /\ sinks[stream].state = "finished"

\* the number of parts of the object, once the probe has told
TotalParts ==
  IF partsToDownload = -1 THEN 1 ELSE partsToDownload

C1_Ascending ==
  \A k \in 1..Len(sinks) :
    \A i \in 1..Len(sinks[k].written) : sinks[k].written[i].partNo = i

C1_HeldUntilTurn ==
  \A n \in DOMAIN partsWaitingForWrite :
    stream /= 0 /\ n > Len(sinks[stream].written)

C1_WriteStep ==
  \A k \in 1..Len(sinks) :
    Len(sinks'[k].written) > Len(sinks[k].written) =>
      LET n == sinks'[k].written[Len(sinks'[k].written)].partNo
      IN /\ Len(sinks'[k].written) = Len(sinks[k].written) + 1
         /\ n = 1 \/ lastWrittenPartNo = n - 1

\* C1: the part numbers handed to the sink are 1, 2, 3, ... without gap,
\* repetition or reordering; part n > 1 is handed over only while
\* lastWrittenPartNo = n-1, and a part in partsWaitingForWrite has not been
\* handed over yet.
C1_WritesInOrder ==
  [](C1_Ascending /\ C1_HeldUntilTurn) /\ [][C1_WriteStep]_vars

\* part 3 was downloaded before part 2, was held, and is written after it
C1_Witness ==
  /\ Before("part:downloaded", 3, "part:downloaded", 2)
  /\ stream /= 0
  /\ Len(sinks[stream].written) >= 3

\* C2: at most options.concurrency GETs are in flight, whether counted as
\* partsDownloading() counts them or as the GETs issued and not called back
\* (the probe among them).
C2_ConcurrencyBound ==
  /\ Cardinality(DOMAIN partsDownloading) <= options.concurrency
  /\ Cardinality(inflight) <= options.concurrency

\* the budget is used up while parts are left to dispatch
C2_Witness ==
  /\ options.concurrency >= 2
  /\ Cardinality(DOMAIN partsDownloading) = options.concurrency
  /\ nextPartNo <= partsToDownload

\* C3: when the download is Done, the part:done events carry exactly the
\* part numbers 1..N, each once.
C3_DoneEachPartOnce ==
  Finished =>
    /\ Len(EventNos("part:done")) = TotalParts
    /\ Range(EventNos("part:done")) = 1..TotalParts

C3_Witness ==
  /\ Finished
  /\ partsToDownload >= 3
  /\ Before("part:done", 2, "part:done", 3)

\* C4: when the download is Done, the lengths of the bodies written add up to
\* the size of the object, which in range mode is the total of the probe's
\* Content-Range, and the bodies are written in ascending byte offset.
C4_AllBytesInOrder ==
  Finished =>
    LET w == sinks[stream].written
    IN /\ SumLen(w) = objectSize
       /\ \A i \in 1..(Len(w) - 1) : w[i].off < w[i + 1].off
       /\ options.partSizeInBytes /= 0 => bytesToDownload = objectSize

\* range mode, three parts or more, the last one shorter than the part size
C4_Witness ==
  /\ Finished
  /\ options.partSizeInBytes /= 0
  /\ partsToDownload >= 3
  /\ sinks[stream].written[partsToDownload].len < options.partSizeInBytes

\* Done: every part is written and the sink is closed
Done ==
  /\ stream /= 0
  /\ lastWrittenPartNo = partsToDownload
  /\ sinks[stream].state \in {"ending", "finished"}
  /\ ~sinks[stream].destroyed

\* Aborted: the sink is destroyed and no GET is in flight
Aborted ==
  /\ stream /= 0
  /\ sinks[stream].destroyed
  /\ inflight = {}

\* C5: when every GET ends, the nextTick queue runs and the sink drains and
\* finishes, a started download reaches Done or Aborted, and it reaches Done
\* unless a GET failed or abort() was called.
C5_Terminates ==
  (stream /= 0) ~> (Done \/ (Aborted /\ faulted))

\* Done after part 3 had to wait in partsWaitingForWrite for part 2
C5_Witness ==
  /\ Done
  /\ partsToDownload >= 3
  /\ Before("part:downloaded", 3, "part:downloaded", 2)

C8_BufferedPartsDiscarded ==
  aborted =>
    /\ DOMAIN partsWaitingForWrite = {}
    /\ \A i \in 1..Len(afterAbort) : afterAbort[i].name /= "write"

\* C9: the body of abortDownloads runs at most once; aborted, once true,
\* stays true; an aborted download has its sink destroyed, and a destroyed
\* sink keeps the error it was destroyed with first, whatever fails or
\* whoever calls abort() later.
C9_AbortsOnce ==
  /\ [](abortTransitions <= 1)
  /\ [](aborted => sinks[stream].destroyed)
  /\ [][aborted => aborted' /\ abortTransitions' = abortTransitions]_vars
  /\ [][(stream /= 0 /\ sinks[stream].destroyed)
         => sinks'[stream].destroyed /\ sinks'[stream].error = sinks[stream].error]_vars

\* two GETs have failed and abort() was called twice
C9_Witness ==
  /\ aborted
  /\ abortCalls = 2
  /\ getCount >= 3
  /\ inflight = {}
  /\ sinks[stream].error = "AccessDenied"

\* C10: however often readStream() and file() are called, one probe GET is
\* issued and one sink is created.
C10_StartedOnce ==
  probeCount <= 1 /\ Len(sinks) <= 1

BadArgs ==
  \/ args.partSizeInMegabytes.given /\ args.partSizeInMegabytes.value <= 0
  \/ args.concurrency < 1

\* C17: download() called with partSizeInMegabytes <= 0 or concurrency < 1
\* never returns a handle, and as long as no handle is returned nothing is
\* started: no GET is issued, no sink exists, no event is emitted.
C17_RejectsBadOptions ==
  /\ BadArgs => handle /= "created"
  /\ handle /= "created" =>
       getCount = 0 /\ probeCount = 0 /\ inflight = {} /\ stream = 0 /\ events = <<>>

\* a part size of 0 MB with a valid concurrency is rejected
C17_Witness ==
  /\ handle = "rejected"
  /\ args.partSizeInMegabytes = Given(0)
  /\ args.concurrency >= 1
  /\ args.connectionTimeoutInMilliseconds = Undefined

\* the probe of an empty object was answered with 200 and no body, with 206
\* and no body, or with 416 InvalidRange, and nobody called abort()
EmptyProbeAnswered ==
  /\ objectSize = 0
  /\ probeCount = 1
  /\ inflight = {}
  /\ probeError /= "AccessDenied"
  /\ abortCalls = 0

\* C18: a probe answered with 200 and an empty body, or with 416
\* InvalidRange, ends the download as an empty object: the sink is closed
\* with no byte written and no error, and no further GET is issued.
C18_EmptyObjectSucceeds ==
  EmptyProbeAnswered =>
    /\ sinks[stream].state \in {"ending", "finished"}
    /\ ~sinks[stream].destroyed
    /\ SumLen(sinks[stream].written) = 0
    /\ getCount = 1

C19_ProbeFailedStep ==
  (probeError = "" /\ probeError' /= "" /\ ~sinks[stream].destroyed) =>
    sinks'[stream].destroyed /\ sinks'[stream].error = probeError'

\* C19: when the probe GET fails the sink is destroyed with that error, the
\* download is Aborted, and no worker is started: the probe stays the only
\* GET ever issued.
C19_ProbeFailureAborts ==
  /\ [](probeError /= "" =>
          /\ Aborted
          /\ getCount = 1
          /\ DOMAIN partsDownloading = {}
          /\ nextPartNo = -1
          /\ tickQ = <<>>)
  /\ [][C19_ProbeFailedStep]_vars

\* the probe of an object of several parts failed
C19_Witness ==
  /\ probeError = "AccessDenied"
  /\ sinks[stream].error = "AccessDenied"
  /\ objectSize > 2 * uploadPartSize
  /\ options.concurrency >= 2

\* ---- retryrequest and request: properties ------------------------------
Last(seq) ==
  seq[Len(seq)]

\* an attempt that failed in a way that is retried: a network error of the
\* listed codes, or a response of status 429 or 5xx
Retriable(e) ==
  IF e.err /= NoError THEN e.err.code \in RETRIABLE_NETWORK_ERROR_CODES
  ELSE e.res.statusCode = 429 \/ e.res.statusCode \in 500..599

\* the error of a failed attempt
FailureOf(e) ==
  IF e.err /= NoError THEN e.err
  ELSE Err("status code", e.res.statusCode, "", 0)

\* C12: at most maxAttempts requests are issued (5 for getObject, 3 for
\* imdsRequest) and retryrequest calls back at most once; when an attempt
\* gets a response that is not 429 or 5xx the call succeeds with it; when
\* maxAttempts attempts have failed retriably the call fails with the error
\* of the last one.
C12_BoundedRetries ==
  /\ rr.sent <= rr.maxAttempts
  /\ Len(rr.cbs) <= 1
  /\ rr.phase /= "idle" =>
       rr.maxAttempts = (IF rr.caller = "getObject" THEN 5 ELSE 3)
  /\ (rr.log /= <<>> /\ Last(rr.log).err = NoError /\ ~Retriable(Last(rr.log))) =>
       rr.cbs = <<[err |-> NoError, res |-> Last(rr.log).res]>>
  /\ (rr.log /= <<>> /\ Len(rr.log) = rr.maxAttempts
        /\ \A i \in 1..Len(rr.log) : Retriable(rr.log[i])) =>
       rr.cbs = <<[err |-> FailureOf(Last(rr.log)), res |-> NoRes]>>

\* the fifth GET succeeds after four retriable failures
C12_Witness ==
  /\ rr.caller = "getObject"
  /\ rr.sent = 5
  /\ rr.phase = "done"
  /\ rr.cbs[1].err = NoError
  /\ rr.cbs[1].res.statusCode = 206

C13_Log ==
  rr.log /= <<>> =>
    LET n == Len(rr.log)
    IN /\ n <= rr.maxAttempts
       /\ \A i \in 1..(n - 1) : Retriable(rr.log[i])
       /\ ~Retriable(rr.log[n]) => rr.phase = "done"
       /\ (rr.phase = "done" /\ Retriable(rr.log[n])) =>
            \/ n = rr.maxAttempts
            \/ rr.aborted /\ rr.cbs = <<[err |-> AbortReason, res |-> NoRes]>>

C13_NextAttempt ==
  (rr.sent >= 1 /\ rr'.sent > rr.sent) =>
    /\ Retriable(Last(rr.log))
    /\ rr.sent < rr.maxAttempts
    /\ ~rr.aborted

C14_Cancelled ==
  (rr.phase = "backoff" /\ rr.aborted) =>
    \/ rr' = rr
    \/ /\ rr'.phase = "done"
       /\ rr'.sent = rr.sent
       /\ rr'.cbs = <<[err |-> AbortReason, res |-> NoRes]>>

\* C14: when the signal aborts during the delay before a retry, the delay
\* ends, no further request is issued and retryrequest calls back once, with
\* signal.reason; nothing happens after that.
C14_CancelDuringBackoff ==
  /\ [][C14_Cancelled]_vars
  /\ [][rr.phase = "done" => rr' = rr]_vars
  /\ (rr.phase = "backoff" /\ rr.aborted) ~> (rr.phase = "done")

\* cancelled in the delay after the second retriable failure
C14_Witness ==
  /\ rr.phase = "done"
  /\ rr.aborted
  /\ Len(rr.log) = 2
  /\ Retriable(rr.log[2])
  /\ rr.cbs = <<[err |-> AbortReason, res |-> NoRes]>>

\* C15: when a request is over, request has called back exactly once.
C15_CompletesOnce ==
  rr.http = "closed" => rr.reqCbs = 1

\* C20: the error surfaced for a GET that ended with a status of 400 or more
\* has that status as its statusCode.
C20_ErrorsCarryStatus ==
  (/\ rr.phase = "done"
   /\ rr.caller = "getObject"
   /\ ~rr.aborted
   /\ Last(rr.log).err = NoError
   /\ Last(rr.log).res.statusCode >= 400) =>
    rr.results[1].statusCode = Last(rr.log).res.statusCode

PartEventNames ==
  <<"part:downloading", "part:downloaded", "part:writing", "part:done">>

IsPartEvent(e) ==
  \E k \in 1..Len(PartEventNames) : PartEventNames[k] = e.name

Stage(e) ==
  CHOOSE k \in 1..Len(PartEventNames) : PartEventNames[k] = e.name

C22_DispatchAfterProbe ==
  \A j \in 1..Len(events) :
    (events[j].name = "part:downloading" /\ events[j].partNo > 1) =>
      /\ \E i \in 1..(j - 1) :
           /\ events[i].name = "part:downloaded"
           /\ events[i].partNo < events[j].partNo
      /\ \A i \in 1..(j - 1) :
           events[i].name = "part:done" => events[i].partNo < events[j].partNo
      /\ \E i \in 1..(j - 1) : events[i] = [name |-> "part:downloaded", partNo |-> 1]

\* part 3 is dispatched while part 2 is under way, part 4 after part 2 is done
C22_Witness ==
  /\ Before("part:downloading", 3, "part:downloaded", 2)
  /\ Before("part:done", 2, "part:downloading", 4)

\* the parts that have emitted part:downloading and not yet part:done
ActiveParts ==
  {n \in Range(EventNos("part:downloading")) : n \notin Range(EventNos("part:done"))}

C23_DispatchStep ==
  \A n \in Range(EventNos("part:downloading"))' \ Range(EventNos("part:downloading")) :
    n > options.concurrency + 1 =>
      \E m \in Range(EventNos("part:done")) : m > 1 /\ m < n

RECURSIVE Bytes(_)
Bytes(seq) ==
  IF seq = <<>> THEN <<>>
  ELSE [i \in 1..Head(seq).len |-> Head(seq).off + i - 1] \o Bytes(Tail(seq))

\* the bytes of the object
ObjectBytes ==
  [i \in 1..objectSize |-> i - 1]

\* C24: whatever the order and timing in which the GETs complete, a download
\* that is Done has delivered the bytes of the object, first to last; so any
\* two runs over the same object deliver the same byte sequence.
C24_SameBytesEveryRun ==
  Done => Bytes(sinks[stream].written) = ObjectBytes

\* Done in range mode although parts 3 and 4 were downloaded before part 2
C24_Witness ==
  /\ Done
  /\ options.partSizeInBytes /= 0
  /\ partsToDownload >= 4
  /\ Before("part:downloaded", 4, "part:downloaded", 3)
  /\ Before("part:downloaded", 3, "part:downloaded", 2)

\* ---- file(path, cb): properties ----------------------------------------
\* C25: the callback of file() is called once: without an error when the
\* last part is written and the file is closed, with the error of the sink
\* when the download is aborted.
C25_FileCallbackOnce ==
  \A k \in 1..Len(sinks) :
    sinks[k].kind = "WriteStream" =>
      /\ Len(sinks[k].cbs) <= 1
      /\ sinks[k].state = "finished" /\ ~sinks[k].destroyed => sinks[k].cbs = <<"">>
      /\ sinks[k].destroyed /\ "error" \notin sinks[k].listeners
           => sinks[k].cbs = <<sinks[k].error>>

\* ---- object:downloading: properties ------------------------------------
\* where in events the object was announced
Announced ==
  {i \in 1..Len(events) : events[i].name = "object:downloading"}

RangeParts ==
  CeilDiv(objectSize, options.partSizeInBytes)

\* the Range a GET asks for is the one C27 gives
RangeRequested(get) ==
  IF get.probe
  THEN get.partNo = 1 /\ get.startByte = 0
       /\ get.endByte = options.partSizeInBytes - 1
  ELSE /\ get.partNo \in 2..RangeParts
       /\ get.startByte = (get.partNo - 1) * options.partSizeInBytes
       /\ get.endByte = Min(get.partNo * options.partSizeInBytes - 1, objectSize - 1)

\* C27: in range mode the probe asks for [0, P-1] and part n of 2..N,
\* N = ceil(S/P), for [(n-1)*P, min(n*P-1, S-1)]; clipped to the object, the
\* ranges of parts 1..N start at byte 0, follow one another without gap or
\* overlap and end at byte S-1.
C27_RangesPartition ==
  options.partSizeInBytes /= 0 =>
    /\ \A get \in inflight : get.range /\ RangeRequested(get)
    /\ Done =>
         LET w == sinks[stream].written
         IN /\ Len(w) = RangeParts
            /\ w[1].off = 0
            /\ w[Len(w)].off + w[Len(w)].len = objectSize
            /\ \A n \in 1..Len(w) :
                 /\ w[n].partNo = n
                 /\ w[n].len >= 1
                 /\ w[n].off = (n - 1) * options.partSizeInBytes
                 /\ w[n].off + w[n].len - 1
                      = Min(n * options.partSizeInBytes - 1, objectSize - 1)
            /\ \A n \in 1..(Len(w) - 1) : w[n + 1].off = w[n].off + w[n].len

\* the GET of the last part of three or more asks for less than a part size
C27_Witness ==
  \E get \in inflight :
    /\ get.range
    /\ get.partNo >= 3
    /\ get.partNo = partsToDownload
    /\ get.endByte = objectSize - 1
    /\ get.endByte < get.partNo * options.partSizeInBytes - 1

\* ---- single-part objects: properties -----------------------------------
\* the object has one part: one upload part (no x-amz-mp-parts-count above
\* 1), or in range mode no more bytes than the part size
SinglePart ==
  IF options.partSizeInBytes = 0 THEN UploadParts = 1
  ELSE objectSize <= options.partSizeInBytes

\* the probe GET has been answered with the part
ProbeSucceeded ==
  probeCount = 1 /\ probeError = "" /\ \A get \in inflight : ~get.probe

\* C28: for a single-part object one GET is issued, and once it has
\* succeeded the body of the probe is written, the sink is closed and the
\* download is Done, unless abort() was called.
C28_SinglePartOneGet ==
  SinglePart =>
    /\ getCount <= 1
    /\ partsToDownload = -1
    /\ (ProbeSucceeded /\ abortCalls = 0) =>
         /\ Done
         /\ Len(sinks[stream].written) = 1
         /\ Bytes(sinks[stream].written) = ObjectBytes

\* range mode, an object of exactly one part size, written and flushed
C28_Witness ==
  /\ options.partSizeInBytes /= 0
  /\ objectSize = options.partSizeInBytes
  /\ Finished
  /\ getCount = 1
  /\ EventNos("part:done") = <<1>>

\* ---- dispatch: properties ----------------------------------------------
\* C29: the part:downloading events carry 1, 2, 3, ... in that order, no
\* part number above partsToDownload is requested, and when the download is
\* Done every part of 1..N has been dispatched, once.
C29_DispatchAscending ==
  /\ \A i \in 1..Len(EventNos("part:downloading")) :
       EventNos("part:downloading")[i] = i
  /\ Len(EventNos("part:downloading")) <= TotalParts
  /\ \A get \in inflight : get.partNo \in 1..TotalParts
  /\ Done => EventNos("part:downloading") = [i \in 1..TotalParts |-> i]

\* five parts on three workers, all dispatched and the download Done
C29_Witness ==
  /\ Done
  /\ options.concurrency = 3
  /\ EventNos("part:downloading") = <<1, 2, 3, 4, 5>>
  /\ Before("part:downloaded", 4, "part:downloaded", 2)

\* ---- closing the sink: properties --------------------------------------
\* a write callback that has not run yet: the part is being written
BeingWritten ==
  \/ \E i \in 1..Len(tickQ) : tickQ[i].k \in {"written", "probeDone"}
  \/ \E i \in 1..Len(drainWaiters) : drainWaiters[i].cb.k \in {"written", "probeDone"}

IsWriteCallback(queued) ==
  queued.k \in {"written", "probeDone"}

\* the part writes whose callback has not run yet
OutstandingWrites ==
  Cardinality({i \in 1..Len(tickQ) : IsWriteCallback(tickQ[i])})
  + Cardinality({i \in 1..Len(drainWaiters) : IsWriteCallback(drainWaiters[i].cb)})

\* while the sink is in need of 'drain' nothing is handed to it, the part
\* being written is not counted as written, and a part downloaded meanwhile
\* is put into partsWaitingForWrite
C31_WaitsForDrainStep ==
  (stream /= 0 /\ sinks[stream].needDrain /\ sinks'[stream].needDrain) =>
    /\ sinks'[stream].written = sinks[stream].written
    /\ lastWrittenPartNo' = lastWrittenPartNo
    /\ \A n \in Range(EventNos("part:downloaded"))' \ Range(EventNos("part:downloaded")) :
         n \in DOMAIN partsWaitingForWrite'

\* C31: at most one part write is outstanding; while the sink is in need of
\* 'drain' the callback of the write is neither run nor queued, no part is
\* handed to the sink, and the parts downloaded meanwhile are buffered.
C31_SingleWriter ==
  /\ [](OutstandingWrites <= 1)
  /\ [](\A k \in 1..Len(sinks) :
          sinks[k].needDrain =>
            /\ \A i \in 1..Len(tickQ) : ~IsWriteCallback(tickQ[i])
            /\ \E i \in 1..Len(drainWaiters) :
                 drainWaiters[i].stream = k /\ IsWriteCallback(drainWaiters[i].cb))
  /\ [][C31_WaitsForDrainStep]_vars

\* the sink is not ready for part 2; parts 3 and 4 are downloaded and held
C31_Witness ==
  /\ stream /= 0
  /\ sinks[stream].needDrain
  /\ ~sinks[stream].destroyed
  /\ lastWrittenPartNo = 1
  /\ Len(sinks[stream].written) = 2
  /\ DOMAIN partsWaitingForWrite = {3, 4}

\* ---- parts held for writing: properties --------------------------------
\* the downloaded parts held in partsWaitingForWrite
Buffered ==
  Cardinality(DOMAIN partsWaitingForWrite)

PartsBeingWritten ==
  {tickQ[i].partNo : i \in {j \in 1..Len(tickQ) : IsWriteCallback(tickQ[j])}}
  \cup {drainWaiters[i].cb.partNo :
          i \in {j \in 1..Len(drainWaiters) : IsWriteCallback(drainWaiters[j].cb)}}

PartStates(n) ==
  {st \in {"pending", "downloading", "waiting", "writing", "written"} :
     \/ st = "pending" /\ n >= nextPartNo
     \/ st = "downloading" /\ n \in DOMAIN partsDownloading
     \/ st = "waiting" /\ n \in DOMAIN partsWaitingForWrite
     \/ st = "writing" /\ n \in PartsBeingWritten
     \/ st = "written" /\ n <= lastWrittenPartNo}

C38_BadContentRangeSurfaced ==
  (options.partSizeInBytes /= 0 /\ probeHeader /= "right" /\ abortCalls = 0
   /\ (ProbeSucceeded \/ uncaught /= "")) =>
    /\ uncaught = ""
    /\ sinks[stream].destroyed
    /\ sinks[stream].error = "unexpected S3 content range"
    /\ getCount = 1

\* ---- the DNS cache: properties -----------------------------------------
\* what the callbacks of getDnsCache were called with
DnsResults ==
  LET IsDns(r) == r.fn = "dns"
  IN SelectSeq(cache.results, IsDns)

\* the callback that is due belongs to a lookup that found records cached,
\* and they have expired
ExpiredRecordsDue ==
  /\ cache.jobs /= <<>>
  /\ Head(cache.jobs).fn = "dns"
  /\ ~Head(cache.jobs).fresh
  /\ cache.promises[Head(cache.jobs).p].state = "resolved"
  /\ Expired(cache, Head(cache.jobs).p, DNS_RECORD_MAX_AGE_IN_MILLISECONDS)

\* when that callback runs it returns no address: the cache entry is
\* replaced by a resolve that is under way
C34_RefreshStep ==
  (ExpiredRecordsDue /\ cache'.jobs = Tail(cache.jobs)) =>
    /\ cache'.results = cache.results
    /\ cache'.fetches = cache.fetches + 1
    /\ cache'.dnsCache = Len(cache'.promises)
    /\ cache'.dnsCache /= cache.dnsCache
    /\ cache'.promises[cache'.dnsCache].state = "pending"

\* C34: a lookup never returns a record older than the max age: records
\* found expired are discarded and the address comes from a resolve that
\* completed after that.
C34_NoExpiredRecord ==
  /\ [](\A i \in 1..Len(DnsResults) :
          DnsResults[i].err = "" =>
            DnsResults[i].at - DnsResults[i].cachedAt
              <= DNS_RECORD_MAX_AGE_IN_MILLISECONDS)
  /\ [][C34_RefreshStep]_vars

\* the second lookup found the records of the first expired and got its
\* address from a second resolve
C34_Witness ==
  /\ Len(DnsResults) = 2
  /\ DnsResults[1].err = "" /\ DnsResults[1].p = 1
  /\ DnsResults[2].err = "" /\ DnsResults[2].p = 2
  /\ DnsResults[2].askedAt - DnsResults[1].cachedAt
       > DNS_RECORD_MAX_AGE_IN_MILLISECONDS
  /\ DnsResults[2].cachedAt >= DnsResults[2].askedAt

\* the addresses returned from the record set of promise p, in order
Returned(p) ==
  LET IsOfP(r) == r.err = "" /\ r.p = p
      sel == SelectSeq(DnsResults, IsOfP)
  IN [i \in 1..Len(sel) |-> sel[i].record]

\* C35: the lookups served from one record set of R records return its
\* addresses in turn, the k-th of them the address ((k-1) mod R) + 1, so any
\* R consecutive ones return each address once; and the ring index of every
\* record set stays within 0..R-1.
C35_RoundRobin ==
  \A p \in 1..Len(cache.promises) :
    cache.promises[p].state = "resolved" =>
      LET dns == cache.promises[p].value
          R == Len(dns.records)
      IN /\ dns.ringIndex \in 0..(R - 1)
         /\ dns.ringIndex = Len(Returned(p)) % R
         /\ \A k \in 1..Len(Returned(p)) :
              Returned(p)[k] = dns.records[((k - 1) % R) + 1]

\* one of two records was returned and the ring index was 1 when the set
\* expired; the refresh returned one record, which the next two lookups got
C35_Witness ==
  /\ Len(cache.promises) = 2
  /\ cache.dnsCache = 2
  /\ Len(cache.promises[1].value.records) = 2
  /\ cache.promises[1].value.ringIndex = 1
  /\ Len(cache.promises[2].value.records) = 1
  /\ Returned(1) = <<1>>
  /\ Returned(2) = <<1, 1>>

\* ---- the region cache: properties --------------------------------------
\* the state of the promise imdsRegionCache holds, "undefined" for none
RegionCached ==
  IF cache.imdsRegionCache = 0 THEN "undefined"
  ELSE cache.promises[cache.imdsRegionCache].state

\* a lookup that finds the region resolved sends no request to IMDS
RegionSuccessStep ==
  (cache'.lookups = cache.lookups + 1 /\ RegionCached = "resolved") =>
    cache'.fetches = cache.fetches

\* a lookup that finds a failed resolution resolves again
RegionFailureStep ==
  (cache'.lookups = cache.lookups + 1 /\ RegionCached = "rejected") =>
    /\ cache'.fetches = cache.fetches + 1
    /\ cache'.imdsRegionCache /= cache.imdsRegionCache

\* C36: a lookup that finds the region resolved returns it without a request
\* to IMDS; a resolution that failed is not cached: the next lookup sends a
\* request to IMDS again.
C36_RegionCachedOnSuccessOnly ==
  [][RegionSuccessStep /\ RegionFailureStep]_vars

\* ---- the credentials cache: properties ---------------------------------
\* what the callbacks of getAwsCredentials were called with
CredentialsResults ==
  LET IsCredentials(r) == r.fn = "credentials"
  IN SelectSeq(cache.results, IsCredentials)

\* the callback that is due belongs to a request that found credentials
\* cached, and they have expired
ExpiredCredentialsDue ==
  /\ cache.jobs /= <<>>
  /\ Head(cache.jobs).fn = "credentials"
  /\ ~Head(cache.jobs).fresh
  /\ cache.promises[Head(cache.jobs).p].state = "resolved"
  /\ Expired(cache, Head(cache.jobs).p, AWS_CREDENTIALS_MAX_AGE_IN_MILLISECONDS)

\* when that callback runs the request gets no credentials yet: the cache is
\* invalidated and the request waits for a fetch that is under way
C37_InvalidateStep ==
  (ExpiredCredentialsDue /\ cache'.jobs = Tail(cache.jobs)) =>
    /\ cache'.results = cache.results
    /\ cache'.imdsCredentialsCache /= cache.imdsCredentialsCache
    /\ cache'.promises[cache'.imdsCredentialsCache].state = "pending"
    /\ \E i \in 1..Len(cache'.promises[cache'.imdsCredentialsCache].reactions) :
         cache'.promises[cache'.imdsCredentialsCache].reactions[i].caller
           = Head(cache.jobs).caller

\* C37: no request gets credentials of IMDS that were cached more than
\* AWS_CREDENTIALS_MAX_AGE_IN_MILLISECONDS before it asked: credentials found
\* older are invalidated and the request waits for a fetch.
C37_NoStaleCredentials ==
  /\ [](\A i \in 1..Len(CredentialsResults) :
          (CredentialsResults[i].err = "" /\ CredentialsResults[i].cachedAt /= NaN) =>
            CredentialsResults[i].askedAt - CredentialsResults[i].cachedAt
              <= AWS_CREDENTIALS_MAX_AGE_IN_MILLISECONDS)
  /\ [][C37_InvalidateStep]_vars

\* the second request found the credentials of the first expired and got
\* those of a second fetch
C37_Witness ==
  /\ ~cache.env
  /\ Len(CredentialsResults) = 2
  /\ CredentialsResults[1].err = "" /\ CredentialsResults[1].p = 1
  /\ CredentialsResults[2].err = "" /\ CredentialsResults[2].p = 2
  /\ CredentialsResults[2].askedAt - CredentialsResults[1].cachedAt
       > AWS_CREDENTIALS_MAX_AGE_IN_MILLISECONDS
  /\ CredentialsResults[2].cachedAt >= CredentialsResults[2].askedAt

\* the fetches of credentials from IMDS that are under way
CredentialFetches ==
  {call \in cache.io : call.op = "imds.credentials"}

\* C39: requests that find the cached credentials expired share one
\* refresh: at most one fetch of credentials from IMDS is under way, and
\* the requests that asked before it ended get the credentials of that fetch.
C39_SingleRefresh ==
  /\ Cardinality(CredentialFetches) <= 1
  /\ \A i, j \in 1..Len(CredentialsResults) :
       (/\ CredentialsResults[i].err = ""
        /\ CredentialsResults[j].err = ""
        /\ CredentialsResults[i].askedAt = CredentialsResults[j].askedAt
        /\ CredentialsResults[i].at = CredentialsResults[j].at) =>
         CredentialsResults[i].p = CredentialsResults[j].p

\* the state of the promise dnsCache holds for the hostname
DnsCached ==
  IF cache.dnsCache = 0 THEN "undefined"
  ELSE cache.promises[cache.dnsCache].state

\* C40: a resolve that failed, with an error or with no records, is not
\* cached: the next lookup of the hostname starts a resolve of its own and
\* waits for it.
C40_FailedResolveNotCached ==
  [][(cache'.lookups = cache.lookups + 1 /\ DnsCached = "rejected") =>
       /\ cache'.fetches = cache.fetches + 1
       /\ cache'.dnsCache = Len(cache'.promises)
       /\ cache'.promises[cache'.dnsCache].state = "pending"]_vars

====
